---- MODULE Spec2Model ----
(***************************************************************************)
(* A model of the job-coordination and safety substrate of pioreactor:     *)
(*   - the dosing automation job (execute_io_action and the vial accounting*)
(*     driven by DosingEvents),                                            *)
(*   - the local job registry (JobManager),                                *)
(*   - the LED channel locks and led_intensity,                            *)
(*   - the heater safety checks of the temperature automation job,         *)
(*   - the periodic scheduler RepeatedTimer, with the disconnect handling  *)
(*     of the job that owns it,                                            *)
(*   - the controller jobs passing their state on to an automation job,    *)
(*   - the air bubbler job.                                                *)
(* Each subsystem has its own specification over the shared variables; the *)
(* variables of the other subsystems stay at their initial value.          *)
(*                                                                         *)
(* Volumes are integers in units of 1/UnitsPerMl mL.  Every requested      *)
(* volume is a multiple of GridStep units, so the halving done by          *)
(* execute_io_action is exact, as it is on binary floats.                  *)
(***************************************************************************)
EXTENDS Integers, Sequences, FiniteSets, TLC

VARIABLES
    \* ---- dosing automation job ----
    state,                 \* self.state of the DosingAutomationJob
    MAX_SUBDOSE,           \* config dosing_automation.config/max_subdose
    vial_volume,           \* self.vial_volume
    alt_media_fraction,    \* self.alt_media_fraction, in 1/FracUnit
    media_throughput,      \* self.media_throughput
    alt_media_throughput,  \* self.alt_media_throughput
    dosing_events,         \* DosingEvents published and not yet delivered
    stack,                 \* activation records of execute_io_action
    call,                  \* the current / last top-level call and its outcome
    leaves,                \* the leaf calls of the current top-level call
    last_iter,             \* the last iteration of the pump loop of a leaf
    last_update,           \* the last run of _update_dosing_metrics
    budget,                \* remaining top-level calls and manual pump runs
    \* ---- job registry ----
    rows,                  \* table pio_job_metadata, row id = index
    conn,                  \* per JobManager connection: position in register_and_set_running
    \* ---- LED locks ----
    led_locks,             \* cache "led_locks"
    leds,                  \* cache "leds"
    holding,               \* channels each party has inside lock_leds_temporarily
    last_led_call,         \* the last led_intensity call
    \* ---- temperature automation job ----
    heater_duty_cycle,     \* self.heater_duty_cycle, in 1/100 %
    pwm_locked,            \* the heater PWM lock
    temp_state,            \* self.state of the TemperatureAutomationJob
    latest_temperature,    \* self.latest_temperature, in 1/10 degree C
    last_temp_op,          \* the last temperature-reading operation
    \* ---- RepeatedTimer (the run_thread of the dosing automation job) ----
    now,                   \* time.time(), in ticks
    t_cfg,                 \* interval, run_after and run_immediately of the timer
    event_is_set,          \* self.event is set
    is_paused,             \* self.is_paused
    is_currently_executing,\* self.is_currently_executing
    start_time,            \* self.start_time
    thread_at,             \* per thread: position, end of its wait or callback, outcome
    fires,                 \* the invocations of the callback so far
    cancel_pc,             \* position of the thread that calls cancel()
    t_budget,              \* remaining pause() calls and calls from another thread
    disconnect_pc,         \* position of the job's disconnect handling
    \* ---- air bubbler job ----
    bubbler,               \* state, self.duty_cycle and the duty cycle of self.pwm
    \* ---- construction of an automation job by its controller ----
    ctor,                  \* position in the constructors, states of the two jobs
    \* ---- JobManager.kill_jobs ----
    killer,                \* the termination actions of the last kill_jobs call
    \* ---- managed_lifecycle of a pump action ----
    lifecycle,             \* position of the block, exit event, published $state
    pump_run,              \* the pump action inside the managed_lifecycle block
    \* ---- scoped locks ----
    last_exit,             \* the last scope left: its lock, exit path, what stays locked
    \* ---- callers of update_heater ----
    last_heater_call,      \* the last update_heater call: request, lock, result
    \* ---- settings snapshots of an automation ----
    settings_channel,      \* attributes, the open epoch and the last snapshot published
    \* ---- remote set commands on a job's settings ----
    remote_set,            \* attributes, retained values and the last set command
    \* ---- signal handlers of the process ----
    signals,               \* the installed handler, the callbacks appended, the last delivery
    \* ---- automation switches of a controller ----
    switcher,              \* the automation jobs constructed, self.automation_job, the switch in progress
    \* ---- schedulers started by set_duration ----
    schedules,             \* the RepeatedTimers started, self.run_thread, self.duration
    \* ---- managed_lifecycle blocks of concurrent processes ----
    blocks,                \* for each connection: outside, inside or past its block
    \* ---- calls of a pump action ----
    pump_calls             \* the calls of _pump_action: the last request, its result, the DosingEvents published, the starts of the PWM

dosing_vars == <<state, MAX_SUBDOSE, vial_volume, alt_media_fraction, media_throughput,
                 alt_media_throughput, dosing_events, stack, call, leaves, last_iter,
                 last_update, budget>>
registry_vars == <<rows, conn>>
led_vars == <<led_locks, leds, holding, last_led_call>>
temp_vars == <<heater_duty_cycle, pwm_locked, temp_state, latest_temperature, last_temp_op>>
timer_vars == <<now, t_cfg, event_is_set, is_paused, is_currently_executing, start_time, thread_at,
                fires, cancel_pc, t_budget, disconnect_pc>>
bubbler_vars == <<bubbler>>
process_vars == <<ctor, killer, lifecycle, pump_run, last_exit, last_heater_call>>
service_vars == <<settings_channel, remote_set, signals, switcher, schedules, blocks, pump_calls>>
beside_settings_channel == <<remote_set, signals, switcher, schedules, blocks, pump_calls>>
beside_remote_set == <<settings_channel, signals, switcher, schedules, blocks, pump_calls>>
beside_signals == <<settings_channel, remote_set, switcher, schedules, blocks, pump_calls>>
beside_switcher == <<settings_channel, remote_set, signals, schedules, blocks, pump_calls>>
beside_schedules == <<settings_channel, remote_set, signals, switcher, blocks, pump_calls>>
beside_blocks == <<settings_channel, remote_set, signals, switcher, schedules, pump_calls>>
beside_pump_calls == <<settings_channel, remote_set, signals, switcher, schedules, blocks>>
vars == <<dosing_vars, registry_vars, led_vars, temp_vars, timer_vars, bubbler_vars,
          process_vars, service_vars>>

(***************************************************************************)
(* Bounds of the model                                                     *)
(***************************************************************************)
MaxSteps == 2          \* a pump is asked for at most MaxSteps * GridStep
MaxCalls == 1          \* top-level execute_io_action calls
MaxFaults == 1         \* pump runs that move less than asked
MaxToggles == 1        \* remote changes of the job state
MaxManual == 2         \* pump actions run by the operator
MaxQueue == 1          \* DosingEvents in flight
MaxTime == 6           \* ticks of the clock
MaxInvocations == 1    \* calls of _execute_function from another thread

(***************************************************************************)
(* Units and configuration                                                 *)
(***************************************************************************)
UnitsPerMl == 32
GridStep == 16
FracUnit == 1024
MAX_VIAL_VOLUME_TO_STOP == 576     \* 18.0 mL
max_volume == 448                  \* 14.0 mL, bioreactor/max_volume_ml
waste_removal_multiplier == 2
SubdoseChoices == {32}             \* 1.0 mL, the fallback of max_subdose
AccountingSubdose == 64            \* 2.0 mL
InitialVialVolumes == {448, 560}   \* 14.0 mL, 17.5 mL
ManualVolumes == {0, 16, 640}      \* 0 mL, 0.5 mL, 20 mL

INIT == "init"
READY == "ready"
SLEEPING == "sleeping"
DISCONNECTED == "disconnected"

NoValue == "none"

(***************************************************************************)
(* Job state machine (pioreactor/background_jobs/base.py)                  *)
(***************************************************************************)
\* set_state with no terminal state
set_state_any(cur, new) == new

set_state(cur, new) == IF cur = DISCONNECTED THEN cur ELSE new

(***************************************************************************)
(* SummableDict                                                            *)
(***************************************************************************)
SummableGet(d, k) == IF k \in DOMAIN d THEN d[k] ELSE 0

SummableAddReplace(a, b) == [k \in (DOMAIN a) \cup (DOMAIN b) |-> SummableGet(b, k)]

SummableAdd(a, b) ==
    [k \in (DOMAIN a) \cup (DOMAIN b) |-> SummableGet(a, k) + SummableGet(b, k)]

(***************************************************************************)
(* execute_io_action: pure parts                                           *)
(***************************************************************************)
RECURSIVE SumMl(_)
SumMl(pumps) == IF pumps = <<>> THEN 0 ELSE Head(pumps).ml + SumMl(Tail(pumps))

PumpNames(pumps) == {pumps[i].pump : i \in 1..Len(pumps)}

EndsWithMl(name) == name \in {"media_ml", "alt_media_ml", "salty_media_ml", "waste_ml"}

KwargsOk(pumps) == \A i \in 1..Len(pumps) : EndsWithMl(pumps[i].pump)

\* waste_ml >= sum_of_volumes - 1e-9.  1e-9 mL is below one unit, so on
\* integers the tolerance is any value in (0, 1): half a unit here.
WasteSufficientStrict(waste_ml, sum_of_volumes) == waste_ml > sum_of_volumes

WasteSufficient(waste_ml, sum_of_volumes) == 2 * waste_ml >= 2 * sum_of_volumes - 1

NeedsSplitLoose(sum_of_volumes, max_subdose) == sum_of_volumes > 2 * max_subdose

NeedsSplit(sum_of_volumes, max_subdose) == sum_of_volumes > max_subdose

Half(x) == x \div 2

\* the arguments of each of the two recursive calls
SubcallWasteHalved(waste_ml, pumps) == Half(waste_ml)

SubcallWaste(waste_ml, pumps) == Half(SumMl(pumps))

SubcallPumps(pumps) == [i \in 1..Len(pumps) |-> [pump |-> pumps[i].pump, ml |-> Half(pumps[i].ml)]]

ZeroMoved(pumps) == [k \in PumpNames(pumps) \cup {"waste_ml"} |-> 0]

NewFrame(waste_ml, pumps, depth) ==
    [waste_ml |-> waste_ml, pumps |-> pumps, depth |-> depth,
     pc |-> IF NeedsSplit(SumMl(pumps), MAX_SUBDOSE) THEN "split1" ELSE "leaf",
     i |-> 1, volumes_moved |-> ZeroMoved(pumps)]

ExceedsStopStrict(vial, volume_ml) == vial + volume_ml > MAX_VIAL_VOLUME_TO_STOP

ExceedsStop(vial, volume_ml) == vial + volume_ml >= MAX_VIAL_VOLUME_TO_STOP

\* add_<name>_to_bioreactor: the event kind the pump function publishes
EventOfPump(pump) ==
    CASE pump = "media_ml" -> "add_media"
      [] pump = "alt_media_ml" -> "add_alt_media"
      [] OTHER -> "add_salty_media"

AutomationSource == "dosing_automation:dosing_automation_base"

DosingEvent(volume, event, source) ==
    [volume_change |-> volume, event |-> event, source_of_event |-> source]

\* what a pump reports as moved: the requested volume, or less when it is
\* ended early
PumpOutcomes(ml) == IF ml > 0 /\ budget.faults > 0 THEN {ml, ml - 1} ELSE {ml}


(***************************************************************************)
(* The calculators of dosing_automation.py.  A result is a record with the *)
(* exception raised ("none" when the call returns) and the value returned. *)
(***************************************************************************)
Max(a, b) == IF a >= b THEN a ELSE b

Returned(v) == [error |-> "none", value |-> v]

Raised(e) == [error |-> e, value |-> 0]

ThroughputCalculator_update(dosing_event, current_media_throughput, current_alt_media_throughput) ==
    LET volume == dosing_event.volume_change
        event == dosing_event.event
    IN  CASE event = "add_media" ->
               Returned(<<current_media_throughput + volume, current_alt_media_throughput>>)
          [] event = "add_alt_media" ->
               Returned(<<current_media_throughput, current_alt_media_throughput + volume>>)
          [] event = "remove_waste" ->
               Returned(<<current_media_throughput, current_alt_media_throughput>>)
          [] OTHER -> [error |-> "ValueError", value |-> <<0, 0>>]

VialVolumeCalculator_update(new_dosing_event, current_vial_volume) ==
    LET volume == new_dosing_event.volume_change
        event == new_dosing_event.event
    IN  CASE event = "add_media" -> Returned(current_vial_volume + volume)
          [] event = "add_alt_media" -> Returned(current_vial_volume + volume)
          [] event = "remove_waste" ->
               IF new_dosing_event.source_of_event = "manually"
               THEN Returned(Max(current_vial_volume - volume, 0))
               ELSE IF current_vial_volume <= max_volume
                    THEN Returned(current_vial_volume)
                    ELSE Returned(Max(current_vial_volume - volume, max_volume))
          [] OTHER -> Raised("ValueError")

\* (fraction * volume + alt_media_delta) / (volume + total_addition), with the
\* fraction in 1/FracUnit and the quotient rounded down
_update_alt_media_fraction_calc(current_alt_media_fraction, media_delta, alt_media_delta, current_vial_volume) ==
    LET total_addition == media_delta + alt_media_delta
    IN  IF current_vial_volume + total_addition = 0
        THEN Raised("ZeroDivisionError")
        ELSE Returned((current_alt_media_fraction * current_vial_volume
                        + alt_media_delta * FracUnit)
                      \div (current_vial_volume + total_addition))

AltMediaFractionCalculator_update(new_dosing_event, current_alt_media_fraction, current_vial_volume) ==
    LET volume == new_dosing_event.volume_change
        event == new_dosing_event.event
    IN  CASE event = "add_media" ->
               _update_alt_media_fraction_calc(current_alt_media_fraction, volume, 0,
                                               current_vial_volume)
          [] event = "add_alt_media" ->
               _update_alt_media_fraction_calc(current_alt_media_fraction, 0, volume,
                                               current_vial_volume)
          [] event = "remove_waste" -> Returned(current_alt_media_fraction)
          [] OTHER ->
               _update_alt_media_fraction_calc(current_alt_media_fraction, volume, 0,
                                               current_vial_volume)

(***************************************************************************)
(* Initial state of the dosing automation job: constructed and READY, the  *)
(* metrics at their configured initial values.                             *)
(***************************************************************************)
NoEvent == DosingEvent(0, "none", "none")

\* no iteration of the leaf loop has run in the current call
NoIteration == [ran |-> FALSE, pump |-> "none", ml |-> 0, vial_volume |-> 0,
                state_after |-> READY, invoked |-> FALSE]

\* in_flight: how many DosingEvents the broker holds before the callback runs
InitJobWith(job_state, subdoses, volumes, calls, faults, toggles, manual, in_flight) ==
    /\ state = job_state
    /\ MAX_SUBDOSE \in subdoses
    /\ vial_volume \in volumes
    /\ alt_media_fraction = 0
    /\ media_throughput = 0
    /\ alt_media_throughput = 0
    /\ dosing_events = <<>>
    /\ stack = <<>>
    /\ call = [status |-> "idle", waste_ml |-> 0, pumps |-> <<>>,
               result |-> ZeroMoved(<<>>), state_before |-> READY, state_after |-> READY,
               invocations |-> 0, faults |-> FALSE, left_ready |-> FALSE]
    /\ leaves = <<>>
    /\ last_iter = NoIteration
    /\ last_update = [ran |-> FALSE, event |-> NoEvent, error |-> "none",
                      vial_before |-> 0]
    /\ budget = [calls |-> calls, manual |-> manual, faults |-> faults,
                 toggles |-> toggles, in_flight |-> in_flight]

InitJobIn(job_state, subdoses, volumes, calls, faults, toggles, manual) ==
    InitJobWith(job_state, subdoses, volumes, calls, faults, toggles, manual, MaxQueue)

\* after __init__ the job is READY
InitJob(subdoses, volumes, calls, faults, toggles, manual) ==
    InitJobIn(READY, subdoses, volumes, calls, faults, toggles, manual)

\* one run of the automation from each initial vial volume; pumps may
\* under-deliver
InitDosing == InitJob(SubdoseChoices, InitialVialVolumes, 1, MaxFaults, 0, 0)

\* one run of the automation while the operator pauses and resumes the job
InitPaused == InitJob(SubdoseChoices, InitialVialVolumes, 1, 0, MaxToggles, 0)

\* the operator runs pumps by hand next to the automation
InitAccounting == InitJob({AccountingSubdose}, InitialVialVolumes, MaxCalls, 0, 0, MaxManual)

\* one run of the automation while the broker delivers DosingEvents late
InitLagging ==
    InitJobWith(READY, SubdoseChoices, InitialVialVolumes, 1, 0, 0, 0, MaxQueue + 1)

\* the job when a specification is about another subsystem
InitDosingIdle == InitJob({UnitsPerMl}, {max_volume}, 0, 0, 0, 0)

\* the job at the start of its __init__
InitDosingNew == InitJobIn(INIT, {UnitsPerMl}, {max_volume}, 0, 0, 0, 0)

(***************************************************************************)
(* The requests tried                                                      *)
(***************************************************************************)
Volumes == {k * GridStep : k \in 0..MaxSteps}
\* waste_ml: one step short of the sum of the additions, equal to it, one step more
WasteVolumes(sum_of_volumes) ==
    {w \in {sum_of_volumes - GridStep, sum_of_volumes, sum_of_volumes + GridStep} : w >= 0}
OtherPumps == {<<>>, <<[pump |-> "salty_media_ml", ml |-> GridStep]>>,
               <<[pump |-> "salty_media", ml |-> GridStep]>>}

AllPumpsMl(media_ml, alt_media_ml, other_pumps_ml) ==
    <<[pump |-> "media_ml", ml |-> media_ml],
      [pump |-> "alt_media_ml", ml |-> alt_media_ml]>> \o other_pumps_ml

(***************************************************************************)
(* execute_io_action, top-level entry, as called from run() when READY.    *)
(* The two ValueErrors are raised before anything else is done; run()      *)
(* catches them.                                                           *)
(***************************************************************************)
ExecuteIoAction(waste_ml, media_ml, alt_media_ml, other_pumps_ml) ==
    LET all_pumps_ml == AllPumpsMl(media_ml, alt_media_ml, other_pumps_ml)
        started == [status |-> "running", waste_ml |-> waste_ml, pumps |-> all_pumps_ml,
                    result |-> ZeroMoved(<<>>), state_before |-> state,
                    state_after |-> state,
                    invocations |-> 0, faults |-> FALSE, left_ready |-> FALSE]
    IN  /\ stack = <<>>
        /\ budget.calls > 0
        /\ budget' = [budget EXCEPT !.calls = @ - 1]
        /\ leaves' = <<>>
        /\ last_iter' = NoIteration
        /\ IF ~KwargsOk(all_pumps_ml)
           THEN /\ call' = [started EXCEPT !.status = "raised_kwargs"]
                /\ stack' = <<>>
           ELSE IF ~WasteSufficient(waste_ml, SumMl(all_pumps_ml))
           THEN /\ call' = [started EXCEPT !.status = "raised_waste"]
                /\ stack' = <<>>
           ELSE /\ call' = started
                /\ stack' = <<NewFrame(waste_ml, all_pumps_ml, 0)>>
        /\ UNCHANGED <<state, MAX_SUBDOSE, vial_volume, alt_media_fraction, media_throughput,
                       alt_media_throughput, dosing_events, last_update>>

\* run(): execute() is only called while the job is READY
Run ==
    /\ state = READY
    /\ \E media_ml \in Volumes, alt_media_ml \in Volumes, other_pumps_ml \in OtherPumps :
          \E waste_ml \in WasteVolumes(SumMl(AllPumpsMl(media_ml, alt_media_ml,
                                                       other_pumps_ml))) :
             ExecuteIoAction(waste_ml, media_ml, alt_media_ml, other_pumps_ml)

Top == stack[Len(stack)]

SetTop(f) == [stack EXCEPT ![Len(stack)] = f]

(***************************************************************************)
(* sum_of_volumes > MAX_SUBDOSE: one of the two recursive calls.  The      *)
(* callee checks its own waste_ml; its ValueError would propagate through  *)
(* every caller.                                                           *)
(***************************************************************************)
Split ==
    /\ stack # <<>>
    /\ Top.pc \in {"split1", "split2"}
    /\ LET waste_ml == SubcallWaste(Top.waste_ml, Top.pumps)
           pumps == SubcallPumps(Top.pumps)
       IN  IF ~WasteSufficient(waste_ml, SumMl(pumps))
           THEN /\ stack' = <<>>
                /\ call' = [call EXCEPT !.status = "raised_waste", !.state_after = state]
           ELSE /\ stack' = Append(SetTop([Top EXCEPT !.pc = IF @ = "split1" THEN "wait1"
                                                                     ELSE "wait2"]),
                                   NewFrame(waste_ml, pumps, Top.depth + 1))
                /\ call' = call
    /\ UNCHANGED <<state, MAX_SUBDOSE, vial_volume, alt_media_fraction, media_throughput,
                   alt_media_throughput, dosing_events, leaves, last_iter, last_update,
                   budget>>

(***************************************************************************)
(* One iteration of the loop over all_pumps_ml in a leaf call.             *)
(***************************************************************************)
LeafPump ==
    /\ stack # <<>>
    /\ Top.pc = "leaf"
    /\ Len(dosing_events) < budget.in_flight
    /\ LET p == Top.pumps[Top.i]
           crossed == ExceedsStop(vial_volume, p.ml)
           state1 == IF crossed THEN set_state(state, SLEEPING) ELSE state
           invoked == p.ml > 0 /\ state1 = READY
           next_pc == IF Top.i = Len(Top.pumps) THEN "waste" ELSE "leaf"
       IN  /\ state' = state1
           /\ leaves' = IF Top.i = 1
                        THEN Append(leaves, [waste_ml |-> Top.waste_ml, pumps |-> Top.pumps,
                                             depth |-> Top.depth])
                        ELSE leaves
           /\ last_iter' = [ran |-> TRUE, pump |-> p.pump, ml |-> p.ml,
                            vial_volume |-> vial_volume, state_after |-> state1,
                            invoked |-> invoked]
           /\ IF invoked
              THEN \E volume_moved_ml \in PumpOutcomes(p.ml) :
                     /\ dosing_events' = Append(dosing_events,
                                 DosingEvent(p.ml, EventOfPump(p.pump), AutomationSource))
                     /\ stack' = SetTop([Top EXCEPT
                                 !.volumes_moved[p.pump] = @ + volume_moved_ml,
                                 !.i = @ + 1, !.pc = next_pc])
                     /\ call' = [call EXCEPT !.invocations = @ + 1,
                                             !.faults = @ \/ volume_moved_ml # p.ml]
                     /\ budget' = IF volume_moved_ml # p.ml
                                  THEN [budget EXCEPT !.faults = @ - 1] ELSE budget
              ELSE /\ dosing_events' = dosing_events
                   /\ stack' = SetTop([Top EXCEPT !.i = @ + 1, !.pc = next_pc])
                   /\ call' = [call EXCEPT !.left_ready = @ \/ state1 # READY]
                   /\ budget' = budget
    /\ UNCHANGED <<MAX_SUBDOSE, vial_volume, alt_media_fraction, media_throughput,
                   alt_media_throughput, last_update>>

(***************************************************************************)
(* "remove waste last", then the extra removal of                          *)
(* waste_ml * waste_removal_multiplier whose result is not accumulated.    *)
(***************************************************************************)
LeafWaste ==
    /\ stack # <<>>
    /\ Top.pc = "waste"
    /\ Len(dosing_events) < budget.in_flight
    /\ IF Top.waste_ml > 0 /\ state = READY
       THEN \E waste_moved_ml \in PumpOutcomes(Top.waste_ml) :
              /\ dosing_events' = Append(dosing_events,
                          DosingEvent(Top.waste_ml, "remove_waste", AutomationSource))
              /\ stack' = SetTop([Top EXCEPT
                          !.volumes_moved["waste_ml"] = @ + waste_moved_ml,
                          !.pc = IF Top.waste_ml * waste_removal_multiplier > 0
                                 THEN "extra_waste" ELSE "done"])
              /\ call' = [call EXCEPT !.invocations = @ + 1,
                                      !.faults = @ \/ waste_moved_ml # Top.waste_ml]
              /\ budget' = IF waste_moved_ml # Top.waste_ml
                           THEN [budget EXCEPT !.faults = @ - 1] ELSE budget
       ELSE /\ dosing_events' = dosing_events
            /\ stack' = SetTop([Top EXCEPT !.pc = "done"])
            /\ call' = [call EXCEPT !.left_ready = @ \/ state # READY]
            /\ budget' = budget
    /\ UNCHANGED <<state, MAX_SUBDOSE, vial_volume, alt_media_fraction, media_throughput,
                   alt_media_throughput, leaves, last_iter, last_update>>

LeafExtraWaste ==
    /\ stack # <<>>
    /\ Top.pc = "extra_waste"
    /\ Len(dosing_events) < budget.in_flight
    /\ dosing_events' = Append(dosing_events,
                DosingEvent(Top.waste_ml * waste_removal_multiplier, "remove_waste",
                            AutomationSource))
    /\ stack' = SetTop([Top EXCEPT !.pc = "done"])
    /\ UNCHANGED <<state, MAX_SUBDOSE, vial_volume, alt_media_fraction, media_throughput,
                   alt_media_throughput, call, leaves, last_iter, last_update, budget>>

(***************************************************************************)
(* return volumes_moved: to the caller, which adds it to its own           *)
(* (volumes_moved += ...), or to run() for the top-level call.             *)
(***************************************************************************)
Return ==
    /\ stack # <<>>
    /\ Top.pc = "done"
    /\ IF Len(stack) = 1
       THEN /\ stack' = <<>>
            /\ call' = [call EXCEPT !.status = "returned", !.result = Top.volumes_moved,
                                    !.state_after = state]
       ELSE LET caller == stack[Len(stack) - 1]
                resumed == [caller EXCEPT
                              !.volumes_moved = SummableAdd(@, Top.volumes_moved),
                              !.pc = IF @ = "wait1" THEN "split2" ELSE "done"]
            IN  /\ stack' = [SubSeq(stack, 1, Len(stack) - 1) EXCEPT ![Len(stack) - 1] = resumed]
                /\ call' = call
    /\ UNCHANGED <<state, MAX_SUBDOSE, vial_volume, alt_media_fraction, media_throughput,
                   alt_media_throughput, dosing_events, leaves, last_iter, last_update,
                   budget>>


(***************************************************************************)
(* _update_dosing_metrics: the callback on the dosing_events topic.  The   *)
(* three updates run in order; an exception in one leaves the later ones   *)
(* undone.                                                                 *)
(***************************************************************************)
_update_dosing_metrics ==
    /\ dosing_events # <<>>
    /\ LET dosing_event == Head(dosing_events)
           amf == AltMediaFractionCalculator_update(dosing_event, alt_media_fraction,
                                                    vial_volume)
           thr == ThroughputCalculator_update(dosing_event, media_throughput,
                                              alt_media_throughput)
           vol == VialVolumeCalculator_update(dosing_event, vial_volume)
           error == IF amf.error # "none" THEN amf.error
                    ELSE IF thr.error # "none" THEN thr.error
                    ELSE vol.error
       IN  /\ dosing_events' = Tail(dosing_events)
           /\ alt_media_fraction' = IF amf.error = "none" THEN amf.value
                                    ELSE alt_media_fraction
           /\ media_throughput' = IF amf.error = "none" /\ thr.error = "none"
                                  THEN thr.value[1] ELSE media_throughput
           /\ alt_media_throughput' = IF amf.error = "none" /\ thr.error = "none"
                                      THEN thr.value[2] ELSE alt_media_throughput
           /\ vial_volume' = IF error = "none" THEN vol.value ELSE vial_volume
           /\ last_update' = [ran |-> TRUE, event |-> dosing_event, error |-> error,
                              vial_before |-> vial_volume]
    /\ UNCHANGED <<state, MAX_SUBDOSE, stack, call, leaves, last_iter, budget>>

(***************************************************************************)
(* A pump action run by the operator (pio run add_media --ml x --manually):*)
(* it publishes its DosingEvent with source_of_event "manually".           *)
(***************************************************************************)
ManualPumpAction ==
    /\ budget.manual > 0
    /\ Len(dosing_events) < budget.in_flight
    /\ \E event \in {"add_media", "add_alt_media", "remove_waste"}, ml \in ManualVolumes :
          dosing_events' = Append(dosing_events, DosingEvent(ml, event, "manually"))
    /\ budget' = [budget EXCEPT !.manual = @ - 1]
    /\ UNCHANGED <<state, MAX_SUBDOSE, vial_volume, alt_media_fraction, media_throughput,
                   alt_media_throughput, stack, call, leaves, last_iter, last_update>>

(***************************************************************************)
(* A pump that is not one of the three built in (an extra named pump of a  *)
(* plugin) publishes a DosingEvent of its own kind.                        *)
(***************************************************************************)
CustomEvents == {"add_salty_media"}

ExtraPumpAction ==
    /\ budget.manual > 0
    /\ Len(dosing_events) < budget.in_flight
    /\ \E event \in CustomEvents, ml \in ManualVolumes :
          dosing_events' = Append(dosing_events, DosingEvent(ml, event, "manually"))
    /\ budget' = [budget EXCEPT !.manual = @ - 1]
    /\ UNCHANGED <<state, MAX_SUBDOSE, vial_volume, alt_media_fraction, media_throughput,
                   alt_media_throughput, stack, call, leaves, last_iter, last_update>>

(***************************************************************************)
(* The operator pauses and resumes the job ($state/set), between two steps *)
(* of the run thread.                                                      *)
(***************************************************************************)
RemoteSetState ==
    /\ budget.toggles > 0
    /\ budget' = [budget EXCEPT !.toggles = @ - 1]
    /\ \E new_state \in {READY, SLEEPING} :
          /\ new_state # state
          /\ state' = set_state(state, new_state)
    /\ call' = IF call.status = "running" THEN [call EXCEPT !.left_ready = TRUE] ELSE call
    /\ UNCHANGED <<MAX_SUBDOSE, vial_volume, alt_media_fraction, media_throughput,
                   alt_media_throughput, dosing_events, stack, leaves, last_iter,
                   last_update>>

(***************************************************************************)
(* A controller job (LEDController, DosingController) passes its own       *)
(* transitions on to its automation job.                                   *)
(***************************************************************************)
\* what the controller's call leaves of the run thread's current call
ControllerFrame ==
    /\ call' = IF call.status = "running" THEN [call EXCEPT !.left_ready = TRUE] ELSE call
    /\ UNCHANGED <<MAX_SUBDOSE, vial_volume, alt_media_fraction, media_throughput,
                   alt_media_throughput, dosing_events, stack, leaves, last_iter,
                   last_update>>

\* on_sleeping: if self.automation_job.state != self.SLEEPING: set_state(SLEEPING)
Controller_on_sleeping ==
    /\ budget.toggles > 0
    /\ budget' = [budget EXCEPT !.toggles = @ - 1]
    /\ state' = IF state # SLEEPING THEN set_state(state, SLEEPING) ELSE state
    /\ ControllerFrame

\* on_ready: if self.automation_job.state != self.READY: set_state(READY)
Controller_on_ready ==
    /\ budget.toggles > 0
    /\ budget' = [budget EXCEPT !.toggles = @ - 1]
    /\ state' = IF state # READY THEN set_state(state, READY) ELSE state
    /\ ControllerFrame

\* on_disconnected: self.automation_job.set_state(self.DISCONNECTED)
Controller_on_disconnected ==
    /\ state # DISCONNECTED
    /\ state' = set_state(state, DISCONNECTED)
    /\ UNCHANGED budget
    /\ ControllerFrame

(***************************************************************************)
(* The job registry: JobManager over the table pio_job_metadata.  Every    *)
(* JobManager has its own sqlite connection; each statement is atomic, and *)
(* register_and_set_running runs two of them, a SELECT and then an UPDATE  *)
(* or an INSERT.                                                           *)
(***************************************************************************)
MaxRows == 3

Conns == {"c1", "c2"}
Identities == {[unit |-> "unit1", experiment |-> "exp1", job_name |-> "stirring"],
               [unit |-> "unit1", experiment |-> "exp1", job_name |-> "od_reading"]}
PidOf(c) == IF c = "c1" THEN 101 ELSE 102

IdentityOf(row) == [unit |-> row.unit, experiment |-> row.experiment,
                    job_name |-> row.job_name]

Min(S) == CHOOSE x \in S : \A y \in S : x <= y

\* SELECT id ... WHERE job_name, unit, experiment match; fetchone(): 0 is None
SelectExisting(identity) ==
    LET ids == {i \in 1..Len(rows) : IdentityOf(rows[i]) = identity}
    IN  IF ids = {} THEN 0 ELSE Min(ids)

is_job_running(job_name) ==
    \E i \in 1..Len(rows) : rows[i].job_name = job_name /\ rows[i].is_running = 1

InitRegistry ==
    /\ rows = <<>>
    /\ conn = [c \in Conns |-> [pc |-> "idle", identity |-> NoValue, existing_job |-> 0,
                               job_id |-> 0]]

\* register_and_set_running, first statement: look for an existing row
RegisterSelect(c, identity) ==
    /\ conn[c].pc = "idle"
    /\ conn' = [conn EXCEPT ![c] = [pc |-> "selected", identity |-> identity,
                                    existing_job |-> SelectExisting(identity),
                                    job_id |-> conn[c].job_id]]
    /\ UNCHANGED rows

\* register_and_set_running, second statement: update the row found, or insert
RegisterWrite(c) ==
    /\ conn[c].pc = "selected"
    /\ IF conn[c].existing_job # 0
       THEN /\ rows' = [rows EXCEPT ![conn[c].existing_job] =
                            [@ EXCEPT !.is_running = 1, !.pid = PidOf(c)]]
            /\ conn' = [conn EXCEPT ![c] = [@ EXCEPT !.pc = "idle",
                                                     !.job_id = conn[c].existing_job]]
       ELSE /\ Len(rows) < MaxRows
            /\ rows' = Append(rows, [unit |-> conn[c].identity.unit,
                                     experiment |-> conn[c].identity.experiment,
                                     job_name |-> conn[c].identity.job_name,
                                     is_running |-> 1, pid |-> PidOf(c)])
            /\ conn' = [conn EXCEPT ![c] = [@ EXCEPT !.pc = "idle",
                                                     !.job_id = Len(rows) + 1]]

\* set_not_running(job_id), with the id the connection's owner registered
SetNotRunning(c) ==
    /\ conn[c].pc = "idle"
    /\ conn[c].job_id # 0
    /\ rows' = [rows EXCEPT ![conn[c].job_id] = [@ EXCEPT !.is_running = 0]]
    /\ UNCHANGED conn

(***************************************************************************)
(* LED channel locks and led_intensity (actions/led_intensity.py)          *)
(***************************************************************************)
LED_CHANNELS == {"A", "B", "C", "D"}
LED_LOCKED == "1"
LED_UNLOCKED == "0"

Parties == {"od_reading", "calibration"}
LockRequests == {{"A"}, {"A", "B"}}
IntensityRequests == {<<"A", 10>>, <<"A", 20>>, <<"B", 10>>}

is_locked(channel) == led_locks[channel] = LED_LOCKED

InitLed ==
    /\ led_locks = [c \in LED_CHANNELS |-> LED_UNLOCKED]
    /\ leds = [c \in LED_CHANNELS |-> 0]
    /\ holding = [p \in Parties |-> {}]
    /\ last_led_call = [ran |-> FALSE, channels |-> {}, intensity |-> [c \in {} |-> 0],
                        locked |-> {}, result |-> FALSE, old_state |-> leds,
                        new_state |-> leds]

\* lock_leds_temporarily: entering the scope marks every channel locked
LockLedsEnter(party, channels) ==
    /\ holding[party] = {}
    /\ led_locks' = [c \in LED_CHANNELS |-> IF c \in channels THEN LED_LOCKED
                                            ELSE led_locks[c]]
    /\ holding' = [holding EXCEPT ![party] = channels]
    /\ UNCHANGED <<leds, last_led_call>>

\* the finally clause without the unlocking
LockLedsExitKeepsLocks(party) ==
    /\ holding[party] # {}
    /\ holding' = [holding EXCEPT ![party] = {}]
    /\ UNCHANGED <<led_locks, leds, last_led_call>>

\* lock_leds_temporarily: the finally clause, on a normal exit and on an exception
LockLedsExit(party) ==
    /\ holding[party] # {}
    /\ led_locks' = [c \in LED_CHANNELS |-> IF c \in holding[party] THEN LED_UNLOCKED
                                            ELSE led_locks[c]]
    /\ holding' = [holding EXCEPT ![party] = {}]
    /\ UNCHANGED <<leds, last_led_call>>

\* _update_current_state: returns (new_state, old_state)
_update_current_state(intensity) ==
    [c \in LED_CHANNELS |-> IF c \in DOMAIN intensity THEN intensity[c] ELSE leds[c]]

\* led_intensity(channels, intensities); dac_ok is FALSE when the LED driver
\* is not found (ValueError, caught: return False before the cache is touched)
led_intensity(intensity, dac_ok) ==
    LET new_state == IF dac_ok THEN _update_current_state(intensity) ELSE leds
    IN  /\ leds' = new_state
        /\ last_led_call' = [ran |-> TRUE, channels |-> DOMAIN intensity,
                             intensity |-> intensity,
                             locked |-> {c \in LED_CHANNELS : is_locked(c)},
                             result |-> dac_ok, old_state |-> leds,
                             new_state |-> new_state]
        /\ UNCHANGED <<led_locks, holding>>

LedIntensityCall ==
    \E requests \in (SUBSET IntensityRequests) \ {{}}, dac_ok \in BOOLEAN :
        /\ \A r1, r2 \in requests : r1[1] = r2[1] => r1 = r2
        /\ led_intensity([c \in {r[1] : r \in requests} |->
                             (CHOOSE r \in requests : r[1] = c)[2]], dac_ok)

(***************************************************************************)
(* Heater safety of the temperature automation job                         *)
(* (background_jobs/temperature_automation.py).  Temperatures in 1/10      *)
(* degree C, duty cycles in 1/100 %.                                       *)
(***************************************************************************)
MAX_TEMP_TO_REDUCE_HEATING == 780
MAX_TEMP_TO_DISABLE_HEATING == 800
MAX_TEMP_TO_SHUTDOWN == 850

Readings == {0, 250, 790, 810, 860}
DutyRequests == {0, 5000, 12000}

InitTemp ==
    /\ heater_duty_cycle = 0
    /\ pwm_locked = FALSE
    /\ temp_state = READY
    /\ latest_temperature = 0
    /\ last_temp_op = [ran |-> FALSE, op |-> "none", temp |-> 0, duty_after |-> 0,
                       raised |-> FALSE]

clamp(minimum, x, maximum) == IF x < minimum THEN minimum
                              ELSE IF x > maximum THEN maximum ELSE x

\* round(x, 2) of num/den hundredths: to the nearest, ties to even
RoundHalfEven(num, den) ==
    LET q == num \div den
        r == num % den
    IN  IF 2 * r > den \/ (2 * r = den /\ q % 2 = 1) THEN q + 1 ELSE q

\* _update_heater: the duty cycle after the call (it always returns True)
_update_heater(new_duty_cycle) == clamp(0, new_duty_cycle, 10000)

\* _check_if_exceeds_max_temp: the duty cycle it leaves, from duty cycle dc
_check_if_exceeds_max_temp(temp, dc) ==
    IF temp > MAX_TEMP_TO_SHUTDOWN THEN _update_heater(0)
    ELSE IF temp > MAX_TEMP_TO_DISABLE_HEATING THEN _update_heater(0)
    ELSE IF temp > MAX_TEMP_TO_REDUCE_HEATING
         THEN _update_heater(RoundHalfEven(dc * 9, 10))
    ELSE dc

\* _read_external_temperature: a reading of 0.0 is taken as a sensor failure
\* and switches the heater off
_read_external_temperature(temp, dc) == IF temp = 0 THEN _update_heater(0) ELSE dc

\* read_external_temperature: the duty cycle it leaves
ReadExternalDuty(temp, dc) ==
    _check_if_exceeds_max_temp(temp, _read_external_temperature(temp, dc))

\* the timer read_external_temperature_timer
read_external_temperature ==
    \E temp \in Readings :
        /\ heater_duty_cycle' = ReadExternalDuty(temp, heater_duty_cycle)
        /\ last_temp_op' = [ran |-> TRUE, op |-> "read_external_temperature",
                            temp |-> temp,
                            duty_after |-> ReadExternalDuty(temp, heater_duty_cycle),
                            raised |-> FALSE]
        /\ UNCHANGED <<pwm_locked, temp_state, latest_temperature>>

\* update_heater without the check of the lock
update_heater_unchecked(new_duty_cycle, dc) == _update_heater(new_duty_cycle)

\* update_heater: refused while the PWM is locked
update_heater(new_duty_cycle, dc) ==
    IF ~pwm_locked THEN _update_heater(new_duty_cycle) ELSE dc

\* an automation's execute() or a setter asks for a new duty cycle
UpdateHeater ==
    /\ temp_state = READY
    /\ \E new_duty_cycle \in DutyRequests :
          heater_duty_cycle' = update_heater(new_duty_cycle, heater_duty_cycle)
    /\ UNCHANGED <<pwm_locked, temp_state, latest_temperature, last_temp_op>>

\* the duty cycle infer_temperature leaves: heater off, one reading with the
\* max-temperature check, then the previous duty cycle is restored
InferDuty(temp, previous_heater_dc) ==
    LET measured_dc == ReadExternalDuty(temp, _update_heater(0))
    IN  _update_heater(previous_heater_dc)

\* the timer publish_temperature_timer (paused while SLEEPING); execute() of
\* the base automation does nothing
infer_temperature ==
    /\ temp_state = READY
    /\ \E temp \in Readings :
          IF pwm_locked
          THEN \* assert not self.pwm.is_locked()
               /\ last_temp_op' = [ran |-> TRUE, op |-> "infer_temperature", temp |-> 0,
                                   duty_after |-> heater_duty_cycle, raised |-> TRUE]
               /\ UNCHANGED <<heater_duty_cycle, pwm_locked, temp_state,
                              latest_temperature>>
          ELSE /\ heater_duty_cycle' = InferDuty(temp, heater_duty_cycle)
               /\ latest_temperature' = temp
               /\ last_temp_op' = [ran |-> TRUE, op |-> "infer_temperature",
                                   temp |-> temp,
                                   duty_after |-> InferDuty(temp, heater_duty_cycle),
                                   raised |-> FALSE]
               /\ UNCHANGED <<pwm_locked, temp_state>>

\* on_sleeping and on_sleeping_to_ready
on_sleeping ==
    /\ temp_state = READY
    /\ temp_state' = SLEEPING
    /\ heater_duty_cycle' = _update_heater(0)
    /\ UNCHANGED <<pwm_locked, latest_temperature, last_temp_op>>

on_sleeping_to_ready ==
    /\ temp_state = SLEEPING
    /\ temp_state' = READY
    /\ UNCHANGED <<heater_duty_cycle, pwm_locked, latest_temperature, last_temp_op>>

\* another party (a pump, a calibration) locks and unlocks the heater PWM
PwmLockByOther ==
    /\ pwm_locked' = ~pwm_locked
    /\ UNCHANGED <<heater_duty_cycle, temp_state, latest_temperature, last_temp_op>>

(***************************************************************************)
(* RepeatedTimer (pioreactor/utils/timing.py)                              *)
(*                                                                         *)
(* Time is discrete.  A step that takes no time is taken before the clock  *)
(* moves, and a wait ends at the instant its timeout expires, so the       *)
(* model has no scheduling jitter.  Thread "timer" is self.thread; thread  *)
(* "caller" is any other thread that calls _execute_function.              *)
(***************************************************************************)
Threads == {"timer", "caller"}
Intervals == {2}
RunAfters == {0, 1}
Durations == {0, 1, 3}
Outcomes == {"ok", "execute_raised", "raised"}
DosingTimers == {[owner |-> "dosing_automation", name |-> "run_thread"]}
TemperatureTimers ==
    {[owner |-> "temperature_automation", name |-> "publish_temperature_timer"],
     [owner |-> "temperature_automation", name |-> "read_external_temperature_timer"]}

\* RepeatedTimer.__init__; start() has not been called
InitTimerWith(intervals, run_afters, immediates, timers) ==
    /\ now = 0
    /\ t_cfg \in {[interval |-> i, run_after |-> a, run_immediately |-> b,
                   owner |-> t.owner, name |-> t.name] :
                      i \in intervals, a \in run_afters, b \in immediates, t \in timers}
    /\ event_is_set = FALSE
    /\ is_paused = FALSE
    /\ is_currently_executing = FALSE
    /\ start_time = NoValue
    /\ thread_at = [th \in Threads |->
                [pc |-> IF th = "timer" THEN "unstarted" ELSE "idle",
                 wake_at |-> 0, outcome |-> NoValue]]
    /\ fires = <<>>
    /\ cancel_pc = "none"
    /\ t_budget = [toggles |-> MaxToggles, invocations |-> MaxInvocations]
    /\ disconnect_pc = "none"

\* the run_thread of a dosing automation job
InitTimer == InitTimerWith(Intervals, RunAfters, BOOLEAN, DosingTimers)

InitTimerIdle == InitTimerWith({2}, {0}, {FALSE}, DosingTimers)

\* the run_thread of a dosing automation job, or a timer of a temperature
\* automation job
InitTimerOwned ==
    InitTimerWith(Intervals, RunAfters, BOOLEAN, DosingTimers \cup TemperatureTimers)

\* one of the two timers of a temperature automation job
InitTimerOfTemperature == InitTimerWith(Intervals, RunAfters, BOOLEAN, TemperatureTimers)

\* the property _time with the phase dropped
_time_from_now == t_cfg.interval

\* the property _time
_time == t_cfg.interval - ((now - start_time) % t_cfg.interval)

\* what DosingAutomationJob.run lets escape: an exception of execute() is
\* caught and turned into an ErrorOccurred event
run_escapes(outcome) == IF outcome = "execute_raised" THEN "ok" ELSE outcome

\* _execute_function without its except clause: the exception leaves _target
AfterCallbackUncaught(th, escaped) ==
    IF escaped = "raised" THEN "dead"
    ELSE IF th = "timer" THEN "loop_wait" ELSE "idle"

\* where a thread continues after _execute_function: the except clause logs
\* the exception and the function returns
AfterCallback(th, escaped) == IF th = "timer" THEN "loop_wait" ELSE "idle"

CallbackInProgress(th) == thread_at[th].pc = "callback"

\* a thread is at a step that takes no time
Instantaneous(th) == thread_at[th].pc \in {"pause_check", "exec_check", "exec_set"}

\* a wait or a callback of the thread ends now
Expired(th) ==
    \/ thread_at[th].pc \in {"run_after_wait", "loop_wait"} /\ (event_is_set \/ now >= thread_at[th].wake_at)
    \/ thread_at[th].pc = "callback" /\ now >= thread_at[th].wake_at

\* time passes
Tick ==
    /\ now < MaxTime
    /\ \A th \in Threads : ~Instantaneous(th) /\ ~Expired(th)
    /\ now' = now + 1
    /\ UNCHANGED <<t_cfg, event_is_set, is_paused, is_currently_executing, start_time, thread_at,
                   fires, cancel_pc, t_budget, disconnect_pc>>

\* start(): self.thread.start(); _target begins with event.wait(run_after)
Start ==
    /\ thread_at["timer"].pc = "unstarted"
    /\ thread_at' = [thread_at EXCEPT !["timer"].pc = "run_after_wait",
                          !["timer"].wake_at = now + t_cfg.run_after]
    /\ UNCHANGED <<now, t_cfg, event_is_set, is_paused, is_currently_executing, start_time,
                   fires, cancel_pc, t_budget, disconnect_pc>>

\* _target: event.wait(run_after) is over, whether the event is set or not;
\* start_time is taken, then run_immediately decides
TargetBegin ==
    /\ thread_at["timer"].pc = "run_after_wait"
    /\ event_is_set \/ now >= thread_at["timer"].wake_at
    /\ start_time' = now
    /\ thread_at' = IF t_cfg.run_immediately
              THEN [thread_at EXCEPT !["timer"].pc = "exec_check"]
              ELSE [thread_at EXCEPT !["timer"].pc = "loop_wait",
                               !["timer"].wake_at = now + t_cfg.interval]
    /\ UNCHANGED <<now, t_cfg, event_is_set, is_paused, is_currently_executing, fires,
                   cancel_pc, t_budget, disconnect_pc>>

\* _target: while not self.event.wait(self._time) and not self.is_currently_executing
LoopWake ==
    /\ thread_at["timer"].pc = "loop_wait"
    /\ event_is_set \/ now >= thread_at["timer"].wake_at
    /\ thread_at' = IF event_is_set \/ is_currently_executing
              THEN [thread_at EXCEPT !["timer"].pc = "dead"]
              ELSE [thread_at EXCEPT !["timer"].pc = "pause_check"]
    /\ UNCHANGED <<now, t_cfg, event_is_set, is_paused, is_currently_executing, start_time,
                   fires, cancel_pc, t_budget, disconnect_pc>>

\* _target: if self.is_paused: continue
PauseCheck ==
    /\ thread_at["timer"].pc = "pause_check"
    /\ thread_at' = IF is_paused
              THEN [thread_at EXCEPT !["timer"].pc = "loop_wait",
                               !["timer"].wake_at = now + _time]
              ELSE [thread_at EXCEPT !["timer"].pc = "exec_check"]
    /\ UNCHANGED <<now, t_cfg, event_is_set, is_paused, is_currently_executing, start_time,
                   fires, cancel_pc, t_budget, disconnect_pc>>

\* _execute_function: if self.is_currently_executing: return
ExecCheck(th) ==
    /\ thread_at[th].pc = "exec_check"
    /\ thread_at' = IF is_currently_executing
              THEN [thread_at EXCEPT ![th].pc = AfterCallback(th, "ok"),
                               ![th].wake_at = IF th = "timer" THEN now + _time ELSE @]
              ELSE [thread_at EXCEPT ![th].pc = "exec_set"]
    /\ UNCHANGED <<now, t_cfg, event_is_set, is_paused, is_currently_executing, start_time,
                   fires, cancel_pc, t_budget, disconnect_pc>>

\* how long the callback takes and how it ends; DosingAutomationJob.run
\* returns at once when the job is DISCONNECTED
CallbackRuns ==
    IF t_cfg.owner = "dosing_automation" /\ state = DISCONNECTED
    THEN {<<0, "ok">>}
    ELSE Durations \X Outcomes

\* which invocation of the callback this is
FireKind(th) ==
    IF th = "caller" THEN "direct"
    ELSE IF \E i \in 1..Len(fires) : fires[i].thread = "timer" THEN "periodic"
    ELSE IF t_cfg.run_immediately THEN "immediate" ELSE "periodic"

\* _execute_function: self.is_currently_executing = True, then the callback is
\* called; it will take d and end with outcome o
ExecSet(th) ==
    /\ thread_at[th].pc = "exec_set"
    /\ is_currently_executing' = TRUE
    /\ \E r \in CallbackRuns :
          /\ thread_at' = [thread_at EXCEPT ![th].pc = "callback",
                                            ![th].wake_at = now + r[1],
                                            ![th].outcome = r[2]]
          /\ fires' = Append(fires,
                [thread |-> th, at |-> now, kind |-> FireKind(th), dur |-> r[1],
                 outcome |-> r[2], paused |-> is_paused,
                 cancelled |-> (cancel_pc = "returned"),
                 disconnected |-> (disconnect_pc = "done"),
                 concurrent |-> \E other \in Threads : CallbackInProgress(other),
                 job_state |-> state])
    /\ UNCHANGED <<now, t_cfg, event_is_set, is_paused, start_time, cancel_pc, t_budget,
                   disconnect_pc>>

\* _execute_function: the callback is over; except Exception logs, finally
\* resets the flag
CallbackReturn(th) ==
    /\ thread_at[th].pc = "callback"
    /\ now >= thread_at[th].wake_at
    /\ is_currently_executing' = FALSE
    /\ thread_at' = [thread_at EXCEPT ![th].pc = AfterCallback(th, run_escapes(thread_at[th].outcome)),
                          ![th].wake_at = IF th = "timer" THEN now + _time ELSE @]
    /\ UNCHANGED <<now, t_cfg, event_is_set, is_paused, start_time, fires, cancel_pc,
                   t_budget, disconnect_pc>>

\* another thread calls _execute_function
CallerInvoke ==
    /\ thread_at["caller"].pc = "idle"
    /\ t_budget.invocations > 0
    /\ t_budget' = [t_budget EXCEPT !.invocations = @ - 1]
    /\ thread_at' = [thread_at EXCEPT !["caller"].pc = "exec_check"]
    /\ UNCHANGED <<now, t_cfg, event_is_set, is_paused, is_currently_executing, start_time,
                   fires, cancel_pc, disconnect_pc>>

\* pause()
pause ==
    /\ ~is_paused
    /\ t_budget.toggles > 0
    /\ t_budget' = [t_budget EXCEPT !.toggles = @ - 1]
    /\ is_paused' = TRUE
    /\ UNCHANGED <<now, t_cfg, event_is_set, is_currently_executing, start_time, thread_at, fires,
                   cancel_pc, disconnect_pc>>

\* unpause()
unpause ==
    /\ is_paused
    /\ is_paused' = FALSE
    /\ UNCHANGED <<now, t_cfg, event_is_set, is_currently_executing, start_time, thread_at, fires,
                   cancel_pc, t_budget, disconnect_pc>>

\* cancel(): self.event.set(); self.thread.join() raises RuntimeError for a
\* thread that was never started, and cancel() passes over it
cancel ==
    /\ cancel_pc = "none"
    /\ event_is_set' = TRUE
    /\ cancel_pc' = IF thread_at["timer"].pc = "unstarted" THEN "returned" ELSE "joining"
    /\ UNCHANGED <<now, t_cfg, is_paused, is_currently_executing, start_time, thread_at,
                   fires, t_budget, disconnect_pc>>

\* cancel(): self.thread.join() returns when the thread has ended
CancelReturn ==
    /\ cancel_pc = "joining"
    /\ thread_at["timer"].pc = "dead"
    /\ cancel_pc' = "returned"
    /\ UNCHANGED <<now, t_cfg, event_is_set, is_paused, is_currently_executing, start_time,
                   thread_at, fires, t_budget, disconnect_pc>>

(***************************************************************************)
(* Disconnect handling of the job that owns the timer.  The job has        *)
(* started its timer in __init__.  BackgroundJob runs on_disconnected and  *)
(* then sets the state to DISCONNECTED.                                    *)
(***************************************************************************)
\* RepeatedTimer.join(self) takes no argument besides self
RepeatedTimer_join(kwargs) == IF kwargs = {} THEN "cancel" ELSE "TypeError"

\* DosingAutomationJob.on_disconnected: self.run_thread.join(timeout=10)
\* under suppress(AttributeError)
DosingAutomationJob_on_disconnected ==
    /\ t_cfg.owner = "dosing_automation"
    /\ disconnect_pc = "none"
    /\ thread_at["timer"].pc # "unstarted"
    /\ IF RepeatedTimer_join({"timeout"}) = "TypeError"
       THEN /\ disconnect_pc' = "done"
            /\ state' = set_state(state, DISCONNECTED)
            /\ UNCHANGED event_is_set
       ELSE /\ disconnect_pc' = "joining"
            /\ event_is_set' = TRUE
            /\ UNCHANGED state
    /\ UNCHANGED <<now, t_cfg, is_paused, is_currently_executing, start_time, thread_at,
                   fires, cancel_pc, t_budget>>
    /\ UNCHANGED <<MAX_SUBDOSE, vial_volume, alt_media_fraction, media_throughput,
                   alt_media_throughput, dosing_events, stack, call, leaves, last_iter,
                   last_update, budget>>
    /\ UNCHANGED <<registry_vars, led_vars, temp_vars, bubbler_vars, process_vars, service_vars>>

\* TemperatureAutomationJob.on_disconnected: _update_heater(0), then cancel()
\* of its timers
TemperatureAutomationJob_on_disconnected ==
    /\ t_cfg.owner = "temperature_automation"
    /\ disconnect_pc = "none"
    /\ thread_at["timer"].pc # "unstarted"
    /\ heater_duty_cycle' = _update_heater(0)
    /\ event_is_set' = TRUE
    /\ disconnect_pc' = "joining"
    /\ UNCHANGED <<now, t_cfg, is_paused, is_currently_executing, start_time, thread_at,
                   fires, cancel_pc, t_budget>>
    /\ UNCHANGED <<pwm_locked, temp_state, latest_temperature, last_temp_op>>
    /\ UNCHANGED <<dosing_vars, registry_vars, led_vars, bubbler_vars, process_vars, service_vars>>

\* cancel(): self.thread.join() returns, on_disconnected is over
DisconnectJoined ==
    /\ disconnect_pc = "joining"
    /\ thread_at["timer"].pc = "dead"
    /\ disconnect_pc' = "done"
    /\ temp_state' = set_state(temp_state, DISCONNECTED)
    /\ UNCHANGED <<now, t_cfg, event_is_set, is_paused, is_currently_executing,
                   start_time, thread_at, fires, cancel_pc, t_budget>>
    /\ UNCHANGED <<heater_duty_cycle, pwm_locked, latest_temperature, last_temp_op>>
    /\ UNCHANGED <<dosing_vars, registry_vars, led_vars, bubbler_vars, process_vars, service_vars>>

(***************************************************************************)
(* The temperature automation job is put to sleep and woken up while one   *)
(* of its two timers runs.                                                 *)
(***************************************************************************)
\* on_sleeping: self.publish_temperature_timer.pause(); self._update_heater(0)
TemperatureAutomationJob_on_sleeping ==
    /\ t_cfg.owner = "temperature_automation"
    /\ thread_at["timer"].pc # "unstarted"
    /\ on_sleeping
    /\ is_paused' = IF t_cfg.name = "publish_temperature_timer" THEN TRUE ELSE is_paused
    /\ UNCHANGED <<now, t_cfg, event_is_set, is_currently_executing, start_time,
                   thread_at, fires, cancel_pc, t_budget, disconnect_pc>>
    /\ UNCHANGED <<dosing_vars, registry_vars, led_vars, bubbler_vars, process_vars, service_vars>>

\* on_sleeping_to_ready: self.publish_temperature_timer.unpause()
TemperatureAutomationJob_on_sleeping_to_ready ==
    /\ t_cfg.owner = "temperature_automation"
    /\ thread_at["timer"].pc # "unstarted"
    /\ on_sleeping_to_ready
    /\ is_paused' = IF t_cfg.name = "publish_temperature_timer" THEN FALSE ELSE is_paused
    /\ UNCHANGED <<now, t_cfg, event_is_set, is_currently_executing, start_time,
                   thread_at, fires, cancel_pc, t_budget, disconnect_pc>>
    /\ UNCHANGED <<dosing_vars, registry_vars, led_vars, bubbler_vars, process_vars, service_vars>>

(***************************************************************************)
(* AirBubbler (pioreactor/background_jobs/custom_air_bubbler.py)           *)
(* Duty cycles are in percent.                                             *)
(***************************************************************************)
BubblerRequests == {0, 50, 150}
ConfiguredDutyCycle == 30

\* __init__ and click_air_bubbler: the job is READY and pumping
InitBubbler ==
    bubbler = [state |-> READY, duty_cycle |-> ConfiguredDutyCycle,
               pwm_dc |-> ConfiguredDutyCycle]

\* on_sleeping: stop_pumping()
AirBubbler_on_sleeping ==
    /\ bubbler.state = READY
    /\ bubbler' = [bubbler EXCEPT !.state = set_state(@, SLEEPING), !.pwm_dc = 0]

\* on_sleeping_to_ready: start_pumping()
AirBubbler_on_sleeping_to_ready ==
    /\ bubbler.state = SLEEPING
    /\ bubbler' = [bubbler EXCEPT !.state = set_state(@, READY),
                                  !.pwm_dc = bubbler.duty_cycle]

\* set_duty_cycle, the setter of the settable published setting duty_cycle
AirBubbler_set_duty_cycle(value) ==
    LET dc == clamp(0, value, 100)
    IN  bubbler' = [bubbler EXCEPT !.duty_cycle = dc, !.pwm_dc = dc]

(***************************************************************************)
(* A controller job constructs its automation job: the base constructor    *)
(* DosingAutomationJob.__init__ starts the run timer, then the constructor *)
(* of the subclass (Morbidostat.__init__) converts its arguments.          *)
(***************************************************************************)
Controllers == {"led_control", "dosing_control"}
TargetOds == {NoValue, "0.5"}

\* the controller is in __init__, about to call automation_class(...)
InitCtorWith(controllers, target_ods) ==
    ctor \in [pc : {"base"}, controller : controllers, target_od : target_ods,
              controller_state : {INIT}, automation_job : {FALSE}]

InitCtorOfJob == InitCtorWith(Controllers, TargetOds)

\* DosingAutomationJob.__init__: set_duration(duration) creates the
\* RepeatedTimer of run() and starts it
DosingAutomationJob_init ==
    /\ ctor.pc = "base"
    /\ ctor' = [ctor EXCEPT !.pc = "subclass"]
    /\ Start
    /\ UNCHANGED <<dosing_vars, registry_vars, led_vars, temp_vars, bubbler_vars,
                   killer, lifecycle, pump_run, last_exit, last_heater_call, service_vars>>

\* Morbidostat.__init__ after super().__init__: float(target_od) raises
\* TypeError for the default target_od=None
Morbidostat_init ==
    /\ ctor.pc = "subclass"
    /\ ctor' = [ctor EXCEPT !.pc = IF ctor.target_od = NoValue THEN "raised"
                                   ELSE "constructed"]
    /\ UNCHANGED <<dosing_vars, registry_vars, led_vars, temp_vars, timer_vars,
                   bubbler_vars, killer, lifecycle, pump_run, last_exit, last_heater_call, service_vars>>

\* the constructor returned: the controller keeps the job, both become READY
ControllerInitDone ==
    /\ ctor.pc = "constructed"
    /\ ctor' = [ctor EXCEPT !.pc = "done", !.automation_job = TRUE,
                            !.controller_state = set_state(@, READY)]
    /\ state' = set_state(state, READY)
    /\ UNCHANGED <<MAX_SUBDOSE, vial_volume, alt_media_fraction, media_throughput,
                   alt_media_throughput, dosing_events, stack, call, leaves, last_iter,
                   last_update, budget>>
    /\ UNCHANGED <<registry_vars, led_vars, temp_vars, timer_vars, bubbler_vars,
                   killer, lifecycle, pump_run, last_exit, last_heater_call, service_vars>>

\* the state of the automation job after the controller's on_disconnected:
\* self.automation_job.set_state(DISCONNECTED) under suppress(AttributeError)
AfterControllerDisconnected(job_state, has_job) ==
    IF has_job THEN set_state(job_state, DISCONNECTED) ELSE job_state

\* the constructor raised.  LEDController.__init__ catches, disconnects
\* itself and raises again; DosingController.__init__ has no handler.  In
\* both the exception then reaches the caller.
ControllerInitFailed ==
    /\ ctor.pc = "raised"
    /\ IF ctor.controller = "led_control"
       THEN /\ ctor' = [ctor EXCEPT !.pc = "propagated",
                                    !.controller_state = set_state(@, DISCONNECTED)]
            /\ state' = AfterControllerDisconnected(state, ctor.automation_job)
       ELSE /\ ctor' = [ctor EXCEPT !.pc = "propagated"]
            /\ state' = state
    /\ UNCHANGED <<MAX_SUBDOSE, vial_volume, alt_media_fraction, media_throughput,
                   alt_media_throughput, dosing_events, stack, call, leaves, last_iter,
                   last_update, budget>>
    /\ UNCHANGED <<registry_vars, led_vars, temp_vars, timer_vars, bubbler_vars,
                   killer, lifecycle, pump_run, last_exit, last_heater_call, service_vars>>

(***************************************************************************)
(* Scoped locks: lock_leds_temporarily (a try / finally around the body)   *)
(* and the PWM lock infer_temperature holds around its measurement.        *)
(***************************************************************************)
ExitPaths == {"normal", "exception"}

\* the body of a lock_leds_temporarily scope ends, by falling off its end
\* or by raising: the finally clause runs
LockLedsLeave(party, path) ==
    /\ LockLedsExit(party)
    /\ last_exit' = [ran |-> TRUE, lock |-> "led_locks", path |-> path,
                     channels |-> holding[party],
                     locked_after |-> {c \in holding[party] : led_locks'[c] = LED_LOCKED}]

\* PWM.lock_temporarily: the lock is held inside the scope and released
\* when the scope is left, on every path
pwm_lock_temporarily_enter == TRUE
pwm_lock_temporarily_exit == FALSE

\* infer_temperature, the measurement succeeds
InferTemperatureReturns ==
    /\ ~pwm_locked
    /\ infer_temperature
    /\ last_exit' = [ran |-> TRUE, lock |-> "pwm", path |-> "normal",
                     channels |-> {"heater"},
                     locked_after |-> IF pwm_locked' THEN {"heater"} ELSE {}]

\* infer_temperature, _read_external_temperature raises HardwareNotFoundError
\* inside the scope: the heater was switched off and is not restored
InferTemperatureRaises ==
    /\ temp_state = READY
    /\ ~pwm_locked
    /\ pwm_lock_temporarily_enter
    /\ heater_duty_cycle' = _update_heater(0)
    /\ pwm_locked' = pwm_lock_temporarily_exit
    /\ last_temp_op' = [ran |-> TRUE, op |-> "infer_temperature", temp |-> 0,
                        duty_after |-> _update_heater(0), raised |-> TRUE]
    /\ last_exit' = [ran |-> TRUE, lock |-> "pwm", path |-> "exception",
                     channels |-> {"heater"},
                     locked_after |-> IF pwm_locked' THEN {"heater"} ELSE {}]
    /\ UNCHANGED <<temp_state, latest_temperature>>

(***************************************************************************)
(* Callers of update_heater and update_heater_with_delta, with what the    *)
(* call returns.                                                           *)
(***************************************************************************)
DeltaRequests == {-2500, 2500}

\* the value update_heater returns: that of _update_heater (True), or False
update_heater_returns == IF ~pwm_locked THEN TRUE ELSE FALSE

HeaterCall(op, new_duty_cycle) ==
    /\ heater_duty_cycle' = update_heater(new_duty_cycle, heater_duty_cycle)
    /\ last_heater_call' =
          [ran |-> TRUE, op |-> op, new_duty_cycle |-> new_duty_cycle,
           locked |-> pwm_locked, before |-> heater_duty_cycle,
           after |-> heater_duty_cycle', returned |-> update_heater_returns,
           refused |-> IF update_heater_returns THEN last_heater_call.refused
                       ELSE last_heater_call.refused \cup {new_duty_cycle}]
    /\ UNCHANGED <<pwm_locked, temp_state, latest_temperature, last_temp_op>>

UpdateHeaterCall ==
    \E new_duty_cycle \in DutyRequests : HeaterCall("update_heater", new_duty_cycle)

\* update_heater_with_delta(delta) is update_heater(heater_duty_cycle + delta)
UpdateHeaterWithDeltaCall ==
    \E delta_duty_cycle \in DeltaRequests :
        HeaterCall("update_heater_with_delta", heater_duty_cycle + delta_duty_cycle)

(***************************************************************************)
(* JobManager.kill_jobs over the table pio_job_metadata                    *)
(***************************************************************************)
PUMPING_JOBS == {"add_media", "remove_waste", "add_alt_media", "circulate_media",
                 "circulate_alt_media"}

KillJobNames == {"add_media", "led_intensity", "stirring"}
KillExperiments == {"exp1", "exp2"}
KillPids == {101, 102}

KillRows ==
    [job_name : KillJobNames, experiment : KillExperiments, pid : KillPids,
     is_running : {0, 1}, is_long_running_job : {0, 1}]

\* tables of at most two rows; register_and_set_running keeps one row for
\* each job_name, unit and experiment
KillTables ==
    {<<>>} \cup {<<r>> : r \in KillRows}
        \cup {t \in {<<r1, r2>> : r1 \in KillRows, r2 \in KillRows} :
                \/ t[1].job_name # t[2].job_name
                \/ t[1].experiment # t[2].experiment}

KillQueries == [experiment : {NoValue, "exp1"}, job_name : {NoValue, "add_media"}]

InitKillerWith(tables) ==
    killer \in [pc : {"idle"}, table : tables, all_jobs : {FALSE},
                query : {[experiment |-> NoValue, job_name |-> NoValue]},
                raised : {FALSE}, job_names_to_kill : {<<>>}, list_of_pids : {<<>>},
                count : {0}]

InitKillerOfKill == InitKillerWith(KillTables)

\* the WHERE clause of _get_jobs
MatchesQuery(row, all_jobs, query) ==
    /\ row.is_running = 1
    /\ IF all_jobs
       THEN row.is_long_running_job = 0
       ELSE /\ query.experiment # NoValue => row.experiment = query.experiment
            /\ query.job_name # NoValue => row.job_name = query.job_name

\* _get_jobs: the rows selected, in the order of the table
_get_jobs(table, all_jobs, query) ==
    SelectSeq(table, LAMBDA row : MatchesQuery(row, all_jobs, query))

\* without all_jobs and with no key of the query set the WHERE clause ends
\* in "AND ;" and execute raises sqlite3.OperationalError
GetJobsRaises(all_jobs, query) ==
    ~all_jobs /\ query.experiment = NoValue /\ query.job_name = NoValue

\* kill_jobs: pump jobs go to MQTTKill, led_intensity is passed over, the
\* pid of any other job goes to ShellKill; MQTTKill.kill_jobs publishes
\* "disconnected" once for each name, ShellKill.kill_jobs runs one kill -2
\* with every pid
kill_jobs(all_jobs, query) ==
    LET jobs == _get_jobs(killer.table, all_jobs, query)
        to_mqtt == SelectSeq(jobs, LAMBDA row : row.job_name \in PUMPING_JOBS)
        to_shell == SelectSeq(jobs, LAMBDA row : /\ row.job_name \notin PUMPING_JOBS
                                                /\ row.job_name # "led_intensity")
        job_names_to_kill == [i \in 1..Len(to_mqtt) |-> to_mqtt[i].job_name]
        list_of_pids == [i \in 1..Len(to_shell) |-> to_shell[i].pid]
    IN  /\ killer.pc = "idle"
        /\ killer' =
              IF GetJobsRaises(all_jobs, query)
              THEN [killer EXCEPT !.pc = "returned", !.all_jobs = all_jobs,
                                  !.query = query, !.raised = TRUE]
              ELSE [killer EXCEPT !.pc = "returned", !.all_jobs = all_jobs,
                                  !.query = query,
                                  !.job_names_to_kill = job_names_to_kill,
                                  !.list_of_pids = list_of_pids,
                                  !.count = Len(job_names_to_kill) + Len(list_of_pids)]

\* the caller is done with the result
KillJobsDone ==
    /\ killer.pc = "returned"
    /\ killer' = [killer EXCEPT !.pc = "idle", !.raised = FALSE,
                                !.job_names_to_kill = <<>>, !.list_of_pids = <<>>,
                                !.count = 0]

(***************************************************************************)
(* managed_lifecycle (utils/__init__.py) around a block, and _pump_action  *)
(* (actions/pump.py) as the block.  The clock counts seconds; a step that  *)
(* takes no time is taken before the clock moves.                          *)
(***************************************************************************)
MaxClock == 4
MaxKills == 1

PumpModes == {"ml", "duration", "continuously", "self_test"}
PumpCalibrations == {NoValue, "calibrated"}
PumpDurations == {2}
BodyEnds == {"normal", "return", "exception"}
NotYet == -1

\* PumpCalibration.duration_to_ml and ml_to_duration: duration_ mL for each
\* second, bias_ 0; DEFAULT_CALIBRATION has duration_ = 1.0
DEFAULT_CALIBRATION == "default"
duration_(calibration) == IF calibration = DEFAULT_CALIBRATION THEN 1 ELSE 2
calibration_duration_to_ml(calibration, seconds) == duration_(calibration) * seconds
calibration_ml_to_duration(calibration, ml) == ml \div duration_(calibration)

ReturnsMl(ml) == [kind |-> "returned", ml |-> ml, error |-> NoValue]
RaisesError(error) == [kind |-> "raised", ml |-> 0, error |-> error]
NoResult == [kind |-> NoValue, ml |-> 0, error |-> NoValue]

\* Pump.duration_to_ml with the fallback of DEFAULT_CALIBRATION
duration_to_ml_or_default(calibration, seconds) ==
    calibration_duration_to_ml(IF calibration = NoValue THEN DEFAULT_CALIBRATION
                               ELSE calibration, seconds)

\* Pump.duration_to_ml
duration_to_ml(calibration, seconds) ==
    IF calibration = NoValue THEN RaisesError("CalibrationError")
    ELSE ReturnsMl(calibration_duration_to_ml(calibration, seconds))

\* set_not_running without ended_at
set_not_running_only(row) == [row EXCEPT !.is_running = 0]

\* JobManager.set_not_running
set_not_running(row) == [row EXCEPT !.is_running = 0, !.ended_at = "NOW"]

\* exit_from_mqtt with no effect
exit_from_mqtt_ignored(payload, exit_event) == exit_event

\* managed_lifecycle.exit_from_mqtt: the exit event after the message
exit_from_mqtt(payload, exit_event) ==
    IF payload = "disconnected" THEN TRUE ELSE exit_event

IdleLifecycle(pc) ==
    [pc |-> pc, exit_event |-> FALSE, published |-> <<>>,
     row |-> [is_running |-> 0, ended_at |-> NoValue],
     inbox |-> <<>>, kills |-> 0, delivered |-> FALSE, end_kind |-> NoValue]

IdlePumpRun(pc, mode, calibration, duration) ==
    [pc |-> pc, mode |-> mode, calibration |-> calibration, duration |-> duration,
     ml |-> 0, clock |-> 0, pump_start_time |-> NotYet, wake_at |-> NotYet,
     pwm_on |-> FALSE, stopped_at |-> NotYet, thread |-> NoValue, set_at |-> NotYet,
     republished |-> 0, result |-> NoResult]

\* after managed_lifecycle.__init__: the listeners of $state/set are started
InitLifecycleOfPump == lifecycle = IdleLifecycle("init")

\* _pump_action is called with ml, with duration or with continuously, with
\* or without a calibration; "self_test" is a block that is not a pump
InitPumpRunOfPump ==
    \E mode \in PumpModes, calibration \in PumpCalibrations, duration \in PumpDurations :
        pump_run = IdlePumpRun("new", mode, calibration, duration)

TimedMode == pump_run.mode \in {"ml", "duration"}

\* managed_lifecycle.__enter__: the row is registered as running, "ready"
\* is published
LifecycleEnter ==
    /\ pump_run.pc = "new"
    /\ lifecycle' = [lifecycle EXCEPT !.pc = "ready",
                                      !.row = [is_running |-> 1, ended_at |-> NoValue],
                                      !.published = Append(@, "ready")]
    /\ pump_run' = [pump_run EXCEPT !.pc = "in_block"]

\* a block that is not a pump ends: it falls off its end, returns or raises
BodyEnd ==
    /\ pump_run.pc = "in_block"
    /\ pump_run.mode = "self_test"
    /\ \E kind \in BodyEnds :
          /\ lifecycle' = [lifecycle EXCEPT !.end_kind = kind]
          /\ pump_run' = [pump_run EXCEPT !.pc = "block_end",
                             !.result = IF kind = "exception" THEN RaisesError("Exception")
                                        ELSE ReturnsMl(0)]

\* _pump_action inside with Pump(...): duration and ml are computed, the
\* dosing event is published and the pump is started; dosing by volume
\* without a calibration raises CalibrationError
PumpBegin ==
    /\ pump_run.pc = "in_block"
    /\ pump_run.mode # "self_test"
    /\ IF pump_run.mode = "ml" /\ pump_run.calibration = NoValue
       THEN /\ lifecycle' = [lifecycle EXCEPT !.end_kind = "exception"]
            /\ pump_run' = [pump_run EXCEPT !.pc = "block_end",
                                            !.result = RaisesError("CalibrationError")]
       ELSE LET requested_ml == calibration_duration_to_ml("calibrated", pump_run.duration)
                duration == IF pump_run.mode = "ml"
                            THEN calibration_ml_to_duration(pump_run.calibration, requested_ml)
                            ELSE IF pump_run.mode = "continuously" THEN 1
                            ELSE pump_run.duration
                ml == IF pump_run.mode = "ml" THEN requested_ml
                      ELSE duration_to_ml_or_default(pump_run.calibration, duration)
            IN  /\ pump_run' = [pump_run EXCEPT
                                   !.pc = "waiting", !.duration = duration, !.ml = ml,
                                   !.pump_start_time = pump_run.clock,
                                   !.wake_at = pump_run.clock + duration,
                                   !.pwm_on = TRUE,
                                   !.thread = IF TimedMode THEN "waiting" ELSE NoValue]
                /\ UNCHANGED lifecycle

\* the thread of by_duration(block=False): interrupt.wait(seconds) times
\* out, stop() switches the PWM off
ThreadStop ==
    /\ pump_run.thread = "waiting"
    /\ pump_run.clock >= pump_run.pump_start_time + pump_run.duration
    /\ pump_run' = [pump_run EXCEPT !.thread = "done", !.pwm_on = FALSE,
                                    !.stopped_at = IF pump_run.pwm_on THEN pump_run.clock
                                                   ELSE @]
    /\ UNCHANGED lifecycle

\* state.exit_event.wait(duration) returns.  A timed dose leaves the while
\* loop at once ("or True") and Pump.__exit__ cleans the PWM up; a
\* continuous one republishes on a timeout and stops the pump on the event.
WaitReturns ==
    /\ pump_run.pc = "waiting"
    /\ lifecycle.exit_event \/ pump_run.clock >= pump_run.wake_at
    /\ IF ~TimedMode /\ ~lifecycle.exit_event
       THEN pump_run' = [pump_run EXCEPT !.wake_at = pump_run.clock + pump_run.duration,
                                         !.republished = 1]
       ELSE pump_run' = [pump_run EXCEPT
                            !.pc = "block_end", !.pwm_on = FALSE,
                            !.stopped_at = IF pump_run.pwm_on THEN pump_run.clock ELSE @]
    /\ lifecycle' = [lifecycle EXCEPT !.end_kind = IF pump_run'.pc = "block_end"
                                                   THEN "normal" ELSE @]

\* managed_lifecycle.__exit__: "disconnected" is published, the client is
\* disconnected, the row is set not running; an exception goes on to the
\* caller
LifecycleExit ==
    /\ pump_run.pc = "block_end"
    /\ lifecycle' = [lifecycle EXCEPT !.pc = "exited",
                                      !.published = Append(@, "disconnected"),
                                      !.row = set_not_running(@)]
    /\ pump_run' = [pump_run EXCEPT !.pc = IF lifecycle.end_kind = "exception"
                                              \/ pump_run.mode = "self_test"
                                           THEN "done" ELSE "after_block"]

\* after the block: a dose ended by the exit event returns
\* pump.duration_to_ml(shortened_duration), any other returns ml
PumpReturn ==
    /\ pump_run.pc = "after_block"
    /\ LET shortened_duration == pump_run.clock - pump_run.pump_start_time
       IN  pump_run' = [pump_run EXCEPT
                           !.pc = "done",
                           !.result = IF lifecycle.exit_event
                                      THEN duration_to_ml(pump_run.calibration,
                                                          shortened_duration)
                                      ELSE ReturnsMl(pump_run.ml)]
    /\ UNCHANGED lifecycle

\* a second passes while the main thread waits
PumpTick ==
    /\ pump_run.clock < MaxClock
    /\ pump_run.pc = "waiting"
    /\ ~lifecycle.exit_event
    /\ pump_run.clock < pump_run.wake_at
    /\ pump_run.thread = "waiting"
          => pump_run.clock < pump_run.pump_start_time + pump_run.duration
    /\ pump_run' = [pump_run EXCEPT !.clock = @ + 1]
    /\ UNCHANGED lifecycle

\* the time the exit event is set during a dose, before its duration is over
SetAt ==
    IF /\ pump_run.pc = "waiting"
       /\ pump_run.pwm_on
       /\ pump_run.clock < pump_run.wake_at
       /\ ~lifecycle.exit_event
       /\ pump_run.set_at = NotYet
    THEN pump_run.clock ELSE pump_run.set_at

\* MQTTKill.kill_jobs: "disconnected" is published to $state/set of a pump
\* job whose row is running
KillPublish ==
    /\ lifecycle.row.is_running = 1
    /\ pump_run.mode # "self_test"
    /\ lifecycle.kills < MaxKills
    /\ lifecycle' = [lifecycle EXCEPT !.kills = @ + 1,
                                      !.inbox = Append(@, "disconnected")]
    /\ UNCHANGED pump_run

\* the broker delivers a message to the listener while the client is connected
Deliver ==
    /\ lifecycle.inbox # <<>>
    /\ lifecycle.pc \in {"init", "ready"}
    /\ lifecycle' = [lifecycle EXCEPT
                        !.inbox = Tail(@), !.delivered = TRUE,
                        !.exit_event = exit_from_mqtt(Head(lifecycle.inbox), @)]
    /\ pump_run' = [pump_run EXCEPT !.set_at = SetAt]

\* SIGINT or SIGTERM: the handler appended in __enter__ is _exit
Interrupt ==
    /\ lifecycle.pc = "ready"
    /\ ~lifecycle.exit_event
    /\ lifecycle' = [lifecycle EXCEPT !.exit_event = TRUE]
    /\ pump_run' = [pump_run EXCEPT !.set_at = SetAt]

(***************************************************************************)
(* Settings snapshots of an automation: DosingAutomation.__setattr__ and   *)
(* TemperatureAutomation.__setattr__ close the settings epoch, publish the *)
(* snapshot and open the next epoch.                                       *)
(***************************************************************************)
MaxChanges == 3
Automations == {"dosing_automation", "temperature_automation"}
published_settings == {"state", "target_od", "volume"}
AttributeNames == published_settings \cup {"latest_event"}
AttributeValues == {1, 2}

\* the settings of the snapshot: every published setting but "state"
SnapshotSettings(attributes) ==
    [attr \in published_settings \ {"state"} |-> attributes[attr]]

\* the payload of _send_details_to_mqtt, read from the object as it is now
_send_details_to_mqtt(channel) ==
    [started_at |-> channel.latest_settings_started_at,
     ended_at   |-> channel.latest_settings_ended_at,
     automation |-> channel.automation,
     settings   |-> SnapshotSettings(channel.attributes)]

current_utc_time == settings_channel.clock

InitSettingsWith(automations, states) ==
    settings_channel \in
        [automation : automations, job_state : states,
         attributes : {[attr \in AttributeNames |-> 1]},
         latest_settings_started_at : {0}, latest_settings_ended_at : {NoValue},
         clock : {0}, changes : {0}, published : {NoValue},
         last_set : {[ran |-> FALSE, name |-> "none", at |-> 0,
                      before |-> [attr \in AttributeNames |-> 1]]}]

\* time passes between two assignments
SettingsTick ==
    /\ settings_channel.job_state # DISCONNECTED
    /\ settings_channel.clock < MaxChanges
    /\ settings_channel' = [settings_channel EXCEPT !.clock = @ + 1]

\* __setattr__(name, value): the attribute is assigned first; for a published
\* setting other than "state" the epoch is then closed, the snapshot is
\* published and the next epoch is opened
__setattr__(name, value) ==
    /\ settings_channel.job_state # DISCONNECTED
    /\ settings_channel.changes < MaxChanges
    /\ LET assigned == [settings_channel EXCEPT !.attributes[name] = value,
                                                !.changes = @ + 1,
                                                !.last_set = [ran |-> TRUE, name |-> name,
                                                              at |-> current_utc_time,
                                                              before |-> settings_channel.attributes]]
           closed == [assigned EXCEPT !.latest_settings_ended_at = current_utc_time]
       IN  IF name \in published_settings /\ name # "state"
           THEN settings_channel' =
                    [closed EXCEPT !.published = _send_details_to_mqtt(closed),
                                   !.latest_settings_started_at = current_utc_time,
                                   !.latest_settings_ended_at = NoValue]
           ELSE settings_channel' = assigned

\* on_disconnect / on_disconnected of the automation: the last epoch is closed
\* and its snapshot published
AutomationOnDisconnected ==
    /\ settings_channel.job_state # DISCONNECTED
    /\ LET closed == [settings_channel EXCEPT !.latest_settings_ended_at = current_utc_time,
                                              !.job_state = DISCONNECTED,
                                              !.last_set.ran = FALSE]
       IN  settings_channel' = [closed EXCEPT !.published = _send_details_to_mqtt(closed)]

(***************************************************************************)
(* Remote set commands: <job>/<setting>/set on the bus.  The settable      *)
(* flags are the ones the jobs declare.                                    *)
(***************************************************************************)
MaxSets == 3
SettingKeys == {"heater_duty_cycle", "vial_volume", "automation_name", "target_temperature", "duration"}
SetPayloads == {0, 10}

\* the flag declared with add_to_published_settings / published_settings
settable_always(key) == TRUE

settable(key) ==
    CASE key = "heater_duty_cycle"  -> FALSE
      [] key = "vial_volume"        -> FALSE
      [] key = "automation_name"    -> FALSE
      [] key = "target_temperature" -> TRUE
      [] key = "duration"           -> TRUE

InitRemoteSetWith(budgets) ==
    remote_set \in
        [attributes : {[key \in SettingKeys |-> 0]}, retained : {[key \in SettingKeys |-> 0]},
         sets : budgets, warnings : {0},
         last : {[ran |-> FALSE, key |-> "none", payload |-> 0, attribute_before |-> 0,
                  retained_before |-> 0]}]

InitRemoteSet == InitRemoteSetWith({MaxSets})

\* the owning job writes its own setting and publishes it (retained)
LocalWrite(key, value) ==
    /\ remote_set.attributes[key] # value
    /\ remote_set' = [remote_set EXCEPT !.attributes[key] = value,
                                        !.retained[key] = value,
                                        !.last.ran = FALSE]

\* inbound "set" command on a key: rejected with a warning when the setting
\* is not settable, else the setter runs and publishes
SetAttrFromMessage(key, payload) ==
    /\ remote_set.sets < MaxSets
    /\ LET logged == [remote_set EXCEPT
                         !.sets = @ + 1,
                         !.last = [ran |-> TRUE, key |-> key, payload |-> payload,
                                   attribute_before |-> remote_set.attributes[key],
                                   retained_before |-> remote_set.retained[key]]]
       IN  IF ~settable(key)
           THEN remote_set' = [logged EXCEPT !.warnings = @ + 1]
           ELSE remote_set' = [logged EXCEPT !.attributes[key] = payload,
                                             !.retained[key] = payload]

(***************************************************************************)
(* Signal handlers of a process: callable_stack and append_signal_handler. *)
(***************************************************************************)
MaxDeliveries == 2
Callbacks == {"h1", "h2", "h3"}
\* what signal.getsignal returns before the first call
InstalledHandlers == {"SIG_DFL", "SIG_IGN", "None", "callable", "callable_stack"}

\* callable_stack.__init__ and its appends
callable_stack(callables) == [kind |-> "callable_stack", _callables |-> callables]

InitSignalsWith(installed, deliveries) ==
    signals \in
        {[handler |-> IF kind = "callable_stack"
                      THEN callable_stack(<<"earlier">>)
                      ELSE [kind |-> kind, _callables |-> <<>>],
          appended |-> {}, deliveries |-> n,
          last_delivery |-> [ran |-> FALSE, invoked |-> {}, appended |-> {},
                             default_called |-> FALSE]] :
            kind \in installed, n \in deliveries}

InitSignals == InitSignalsWith({"SIG_DFL"}, {MaxDeliveries})

\* append_signal_handler(signal_value, new_callback)
append_signal_handler(new_callback) ==
    /\ new_callback \notin signals.appended
    /\ LET current_callback == signals.handler
           installed ==
               CASE current_callback.kind = "callable_stack" ->
                        callable_stack(Append(current_callback._callables, new_callback))
                 [] current_callback.kind = "callable" ->
                        callable_stack(<<"callable", new_callback>>)
                 [] current_callback.kind \in {"SIG_DFL", "SIG_IGN"} ->
                        callable_stack(<<new_callback>>)
                 [] current_callback.kind = "None" ->
                        callable_stack(<<>>)
       IN  signals' = [signals EXCEPT !.handler = installed,
                                      !.appended = @ \cup {new_callback},
                                      !.last_delivery.ran = FALSE]

\* the signal is delivered: callable_stack.__call__ runs the default when the
\* stack is empty, then pops and calls every callable
DeliverSignal ==
    /\ signals.appended # {}
    /\ signals.deliveries < MaxDeliveries
    /\ signals.handler.kind = "callable_stack"
    /\ LET fns == signals.handler._callables
       IN  signals' = [signals EXCEPT
                          !.handler = callable_stack(<<>>),
                          !.deliveries = @ + 1,
                          !.last_delivery =
                              [ran |-> TRUE,
                               invoked |-> {fns[i] : i \in 1..Len(fns)},
                               appended |-> signals.appended,
                               default_called |-> (fns = <<>>)]]

(***************************************************************************)
(* LEDController.set_automation and DosingController.set_dosing_automation:*)
(* the automation job in use is disconnected and a new one is constructed. *)
(***************************************************************************)
MaxSwitches == 3
MaxRetries == 1
\* "unknown" is not a key of self.automations
AutomationNames == {"silent", "lightrod_light_control", "unknown"}
automations == {"silent", "lightrod_light_control"}
ConstructorOutcomes == {"constructed", "raised"}
NoJob == 0

AutomationJob(automation_name) == [automation_name |-> automation_name, state |-> READY]

InitSwitcherWith(controllers, first_jobs, switches) ==
    switcher \in
        {[controller |-> controller,
          jobs |-> IF first = NoJob THEN <<>> ELSE <<AutomationJob("silent")>>,
          automation_job |-> first, automation_name |-> "silent",
          pending |-> <<>>, switches |-> n, returned |-> FALSE] :
            controller \in controllers, first \in first_jobs, n \in switches}

InitSwitcher == InitSwitcherWith({"led_control"}, {1}, {MaxSwitches})

\* self.automation_job.set_state("disconnected")
DisconnectCurrent(s) ==
    [s EXCEPT !.jobs[s.automation_job].state = set_state(@, DISCONNECTED)]

\* the second try block: klass = self.automations[name]; klass(...); the
\* assignments.  A KeyError and an exception of the constructor are logged.
ConstructNew(s, automation_name, outcome) ==
    IF automation_name \notin automations \/ outcome = "raised"
    THEN s
    ELSE [s EXCEPT !.jobs = Append(@, AutomationJob(automation_name)),
                   !.automation_job = Len(s.jobs) + 1,
                   !.automation_name = automation_name]

\* __init__ of the controller reaches self.automation_job = automation_class(...)
ControllerConstructsFirstJob ==
    /\ switcher.automation_job = NoJob
    /\ switcher.jobs = <<>>
    /\ switcher' = [switcher EXCEPT !.jobs = <<AutomationJob("silent")>>,
                                    !.automation_job = 1]

\* set_automation(algo_metadata) while self.automation_job exists
set_automation(automation_name, outcome) ==
    /\ switcher.pending = <<>>
    /\ switcher.switches < MaxSwitches
    /\ switcher.automation_job # NoJob
    /\ switcher' = [ConstructNew(DisconnectCurrent(switcher), automation_name, outcome)
                        EXCEPT !.switches = @ + 1, !.returned = TRUE]

\* set_automation(algo_metadata) before self.automation_job exists:
\* AttributeError, time.sleep(1), then the call of itself
SetAutomationTooEarly(automation_name) ==
    /\ switcher.switches < MaxSwitches
    /\ switcher.automation_job = NoJob
    /\ Len(switcher.pending) <= MaxRetries
    /\ switcher.pending # <<>> => switcher.pending[1] = automation_name
    /\ switcher' = [switcher EXCEPT !.pending = Append(@, automation_name),
                                    !.returned = FALSE]

\* the innermost call finds the job: it disconnects it and constructs the new
\* one; every caller then goes on after its except block, into its own second
\* try block
RECURSIVE Unwind(_, _, _)
Unwind(s, frames, outcome) ==
    IF frames = <<>> THEN s
    ELSE Unwind(ConstructNew(s, Head(frames), outcome), Tail(frames), outcome)

SetAutomationRetried(inner_outcome, outcome) ==
    /\ switcher.pending # <<>>
    /\ switcher.automation_job # NoJob
    /\ LET automation_name == switcher.pending[1]
           inner == ConstructNew(DisconnectCurrent(switcher), automation_name, inner_outcome)
       IN  switcher' = [Unwind(inner, switcher.pending, outcome)
                            EXCEPT !.pending = <<>>, !.switches = @ + 1,
                                   !.returned = TRUE]

(***************************************************************************)
(* DosingAutomationJob.set_duration: the schedule that drives run().       *)
(***************************************************************************)
MaxDurationCalls == 3
NoDuration == -1      \* duration = None
DurationRequests == {NoDuration, 0, 20, 30}

\* the default of __init__
skip_first_run == FALSE

InitSchedulesWith(calls) ==
    schedules = [timers |-> <<>>, run_thread |-> [kind |-> "absent", timer |-> 0],
                 duration |-> NoDuration, has_run |-> FALSE, calls |-> calls,
                 last_driver |-> 0]

InitSchedules == InitSchedulesWith(MaxDurationCalls)

\* RepeatedTimer(...).start()
StartedTimer(interval, run_immediately) ==
    [interval |-> interval, run_immediately |-> run_immediately, active |-> TRUE]

\* self.run_thread.cancel() under suppress(AttributeError): a Thread has no
\* cancel, and before the first call there is no run_thread
CancelRunThread(s) ==
    IF s.run_thread.kind = "RepeatedTimer"
    THEN [s EXCEPT !.timers[s.run_thread.timer].active = FALSE]
    ELSE s

set_duration(duration) ==
    /\ schedules.calls < MaxDurationCalls
    /\ IF duration # NoDuration /\ duration # 0
       THEN LET cancelled == CancelRunThread(schedules)
                run_immediately == (~skip_first_run) \/ schedules.has_run
            IN  schedules' = [cancelled EXCEPT
                                 !.duration = duration,
                                 !.timers = Append(@, StartedTimer(duration * 60, run_immediately)),
                                 !.run_thread = [kind |-> "RepeatedTimer",
                                                 timer |-> Len(schedules.timers) + 1],
                                 !.calls = @ + 1]
       ELSE schedules' = [schedules EXCEPT
                             !.duration = NoDuration,
                             !.run_thread = [kind |-> "Thread", timer |-> 0],
                             !.has_run = TRUE,
                             !.calls = @ + 1]

\* a RepeatedTimer that was not cancelled calls run()
ScheduleFires(timer) ==
    /\ timer \in 1..Len(schedules.timers)
    /\ schedules.timers[timer].active
    /\ schedules.last_driver # timer
    /\ schedules' = [schedules EXCEPT !.has_run = TRUE, !.last_driver = timer]

(***************************************************************************)
(* managed_lifecycle blocks of concurrent processes: __enter__ registers   *)
(* the job as running, __exit__ sets the row it registered not running.    *)
(***************************************************************************)
MaxBlocks == 2

InitBlocksWith(entered) == blocks = [c \in Conns |-> [at |-> "outside", entered |-> entered]]

InitBlocks == InitBlocksWith(MaxBlocks)

\* __enter__: jm.register_and_set_running(...), its SELECT
LifecycleEnterSelect(c, identity) ==
    /\ blocks[c].at = "outside"
    /\ blocks[c].entered < MaxBlocks
    /\ RegisterSelect(c, identity)
    /\ blocks' = [blocks EXCEPT ![c].at = "entering"]

\* __enter__: the UPDATE or INSERT, then self._job_id and "ready"
LifecycleEnterWrite(c) ==
    /\ blocks[c].at = "entering"
    /\ RegisterWrite(c)
    /\ blocks' = [blocks EXCEPT ![c].at = "inside", ![c].entered = @ + 1]

\* __exit__: jm.set_not_running(self._job_id)
LifecycleExitBlock(c) ==
    /\ blocks[c].at = "inside"
    /\ SetNotRunning(c)
    /\ blocks' = [blocks EXCEPT ![c].at = "outside"]

(***************************************************************************)
(* Calls of a pump action (actions/pump.py).  _pump_action is called with  *)
(* ml, with duration, with both or with neither, with or without a         *)
(* calibration; the call publishes a DosingEvent, starts the PWM and runs  *)
(* to its return or to its exception.                                      *)
(***************************************************************************)
MaxPumpCalls == 2
MaxElapsed == 1

\* ml: Optional[pt.mL] = None, duration: Optional[pt.Seconds] = None
NotGiven == -100
RequestedMls == {NotGiven, -1, 1}
RequestedDurations == {NotGiven, -1, 1}

NoRequest == [ml |-> NotGiven, duration |-> NotGiven, continuously |-> FALSE, calibration |-> NoValue]

InitPumpCallsWith(budgets) ==
    \E calls_left \in budgets :
        pump_calls = [calls_left |-> calls_left, request |-> NoRequest, result |-> NoResult,
                      dosing_events |-> <<>>, pwm_starts |-> 0]

InitPumpCalls == InitPumpCallsWith({MaxPumpCalls})

\* _pump_action from the DosingEvent on: the event is published first, then
\* the pump runs by_duration (assert seconds >= 0, then the thread starts
\* the PWM) or continuously, republishing on every timeout; a call that
\* ended early returns pump.duration_to_ml(shortened_duration)
PublishAndRun(this_call, ml, seconds, ended_early, elapsed, timeouts) ==
    LET published == [this_call EXCEPT !.dosing_events = Append(@, ml)]
    IN  IF ~this_call.request.continuously
        THEN IF seconds < 0
             THEN [published EXCEPT !.result = RaisesError("AssertionError")]
             ELSE [published EXCEPT
                      !.pwm_starts = @ + 1,
                      !.result = IF ended_early
                                 THEN duration_to_ml(this_call.request.calibration, elapsed)
                                 ELSE ReturnsMl(ml)]
        ELSE [published EXCEPT
                 !.pwm_starts = @ + 1,
                 !.dosing_events = @ \o [i \in 1..timeouts |-> ml],
                 !.result = duration_to_ml(this_call.request.calibration, elapsed)]

\* _pump_action
_pump_action(ml, duration, continuously, calibration) ==
    /\ pump_calls.calls_left > 0
    /\ \E ended_early \in BOOLEAN, elapsed \in 0..MaxElapsed, timeouts \in 0..MaxElapsed :
          LET this_call == [pump_calls EXCEPT
                               !.calls_left = @ - 1,
                               !.request = [ml |-> ml, duration |-> duration,
                                            continuously |-> continuously,
                                            calibration |-> calibration]]
          IN  pump_calls' =
                   IF (ml = NotGiven /\ duration = NotGiven /\ ~continuously)
                         \/ (ml # NotGiven /\ duration # NotGiven)
                   THEN [this_call EXCEPT !.result = RaisesError("AssertionError")]
                   ELSE IF ml # NotGiven
                   THEN IF calibration = NoValue
                        THEN [this_call EXCEPT !.result = RaisesError("CalibrationError")]
                        ELSE IF ml < 0
                        THEN [this_call EXCEPT !.result = RaisesError("AssertionError")]
                        ELSE PublishAndRun(this_call, ml, calibration_ml_to_duration(calibration, ml),
                                           ended_early, elapsed, timeouts)
                   ELSE LET seconds == IF duration # NotGiven THEN duration ELSE 10
                        IN  PublishAndRun(this_call, duration_to_ml_or_default(calibration, seconds),
                                          seconds, ended_early, elapsed, timeouts)

(***************************************************************************)
(* Nothing is being constructed, killed or pumped.                         *)
(***************************************************************************)
InitCtor ==
    ctor = [pc |-> "none", controller |-> "led_control", target_od |-> NoValue,
            controller_state |-> READY, automation_job |-> TRUE]

InitKiller == InitKillerWith({<<>>})

InitLifecycle == lifecycle = IdleLifecycle("none")

InitPumpRun == pump_run = IdlePumpRun("none", "self_test", NoValue, 0)

InitHeaterCall ==
    last_heater_call = [ran |-> FALSE, op |-> "none", new_duty_cycle |-> 0,
                        locked |-> FALSE, before |-> 0, after |-> 0,
                        returned |-> FALSE, refused |-> {}]

InitLastExit ==
    last_exit = [ran |-> FALSE, lock |-> "none", path |-> "none", channels |-> {},
                 locked_after |-> {}]
InitSettings == InitSettingsWith({"dosing_automation"}, {DISCONNECTED})

InitServices == InitSettings /\ InitRemoteSet /\ InitSignals /\ InitSwitcher /\ InitSchedules /\ InitBlocks /\ InitPumpCalls
InitBeside_settings_channel == InitRemoteSet /\ InitSignals /\ InitSwitcher /\ InitSchedules /\ InitBlocks /\ InitPumpCalls
InitBeside_remote_set == InitSettings /\ InitSignals /\ InitSwitcher /\ InitSchedules /\ InitBlocks /\ InitPumpCalls
InitBeside_signals == InitSettings /\ InitRemoteSet /\ InitSwitcher /\ InitSchedules /\ InitBlocks /\ InitPumpCalls
InitBeside_switcher == InitSettings /\ InitRemoteSet /\ InitSignals /\ InitSchedules /\ InitBlocks /\ InitPumpCalls
InitBeside_schedules == InitSettings /\ InitRemoteSet /\ InitSignals /\ InitSwitcher /\ InitBlocks /\ InitPumpCalls
InitBeside_blocks == InitSettings /\ InitRemoteSet /\ InitSignals /\ InitSwitcher /\ InitSchedules /\ InitPumpCalls
InitBeside_pump_calls == InitSettings /\ InitRemoteSet /\ InitSignals /\ InitSwitcher /\ InitSchedules /\ InitBlocks

InitProcesses == InitCtor /\ InitKiller /\ InitLifecycle /\ InitPumpRun /\ InitLastExit /\ InitHeaterCall

(***************************************************************************)
(* Specifications                                                          *)
(***************************************************************************)
Init == InitDosing /\ InitRegistry /\ InitLed /\ InitTemp /\ InitTimerIdle /\ InitBubbler /\ InitProcesses /\ InitServices

Next ==
    \/ (Run /\ UNCHANGED <<registry_vars, led_vars, temp_vars, timer_vars, bubbler_vars, process_vars, service_vars>>)
    \/ (Split /\ UNCHANGED <<registry_vars, led_vars, temp_vars, timer_vars, bubbler_vars, process_vars, service_vars>>)
    \/ (LeafPump /\ UNCHANGED <<registry_vars, led_vars, temp_vars, timer_vars, bubbler_vars, process_vars, service_vars>>)
    \/ (LeafWaste /\ UNCHANGED <<registry_vars, led_vars, temp_vars, timer_vars, bubbler_vars, process_vars, service_vars>>)
    \/ (LeafExtraWaste /\ UNCHANGED <<registry_vars, led_vars, temp_vars, timer_vars, bubbler_vars, process_vars, service_vars>>)
    \/ (Return /\ UNCHANGED <<registry_vars, led_vars, temp_vars, timer_vars, bubbler_vars, process_vars, service_vars>>)
    \/ (_update_dosing_metrics /\ UNCHANGED <<registry_vars, led_vars, temp_vars, timer_vars, bubbler_vars, process_vars, service_vars>>)

\* the dosing automation job on its own
Spec == Init /\ [][Next]_vars

NextPaused ==
    \/ Next
    \/ (RemoteSetState /\ UNCHANGED <<registry_vars, led_vars, temp_vars, timer_vars, bubbler_vars, process_vars, service_vars>>)

\* the dosing automation job and an operator who pauses and resumes it
InitOfPaused == InitPaused /\ InitRegistry /\ InitLed /\ InitTemp /\ InitTimerIdle /\ InitBubbler /\ InitProcesses /\ InitServices

SpecPaused == InitOfPaused /\ [][NextPaused]_vars

NextAccounting ==
    \/ (Run /\ UNCHANGED <<registry_vars, led_vars, temp_vars, timer_vars, bubbler_vars, process_vars, service_vars>>)
    \/ (Split /\ UNCHANGED <<registry_vars, led_vars, temp_vars, timer_vars, bubbler_vars, process_vars, service_vars>>)
    \/ (LeafPump /\ UNCHANGED <<registry_vars, led_vars, temp_vars, timer_vars, bubbler_vars, process_vars, service_vars>>)
    \/ (LeafWaste /\ UNCHANGED <<registry_vars, led_vars, temp_vars, timer_vars, bubbler_vars, process_vars, service_vars>>)
    \/ (LeafExtraWaste /\ UNCHANGED <<registry_vars, led_vars, temp_vars, timer_vars, bubbler_vars, process_vars, service_vars>>)
    \/ (Return /\ UNCHANGED <<registry_vars, led_vars, temp_vars, timer_vars, bubbler_vars, process_vars, service_vars>>)
    \/ (ManualPumpAction /\ UNCHANGED <<registry_vars, led_vars, temp_vars, timer_vars, bubbler_vars, process_vars, service_vars>>)
    \/ (_update_dosing_metrics /\ UNCHANGED <<registry_vars, led_vars, temp_vars, timer_vars, bubbler_vars, process_vars, service_vars>>)

\* the vial accounting under pump actions of the automation and of the operator
InitOfAccounting == InitAccounting /\ InitRegistry /\ InitLed /\ InitTemp /\ InitTimerIdle /\ InitBubbler /\ InitProcesses /\ InitServices

SpecAccounting == InitOfAccounting /\ [][NextAccounting]_vars

\* the vial accounting under events of the built-in and of extra pumps
NextVialState ==
    \/ (ManualPumpAction /\ UNCHANGED <<registry_vars, led_vars, temp_vars, timer_vars, bubbler_vars, process_vars, service_vars>>)
    \/ (ExtraPumpAction /\ UNCHANGED <<registry_vars, led_vars, temp_vars, timer_vars, bubbler_vars, process_vars, service_vars>>)
    \/ (_update_dosing_metrics /\ UNCHANGED <<registry_vars, led_vars, temp_vars, timer_vars, bubbler_vars, process_vars, service_vars>>)

SpecVialState == InitOfAccounting /\ [][NextVialState]_vars

NextRegistry ==
    \/ \E c \in Conns, identity \in Identities :
          RegisterSelect(c, identity) /\ UNCHANGED <<dosing_vars, led_vars, temp_vars, timer_vars, bubbler_vars, process_vars, service_vars>>
    \/ \E c \in Conns : RegisterWrite(c) /\ UNCHANGED <<dosing_vars, led_vars, temp_vars, timer_vars, bubbler_vars, process_vars, service_vars>>
    \/ \E c \in Conns : SetNotRunning(c) /\ UNCHANGED <<dosing_vars, led_vars, temp_vars, timer_vars, bubbler_vars, process_vars, service_vars>>

\* JobManager connections of concurrent processes
InitIdle == InitDosingIdle /\ InitRegistry /\ InitLed /\ InitTemp /\ InitTimerIdle /\ InitBubbler /\ InitProcesses /\ InitServices

SpecRegistry == InitIdle /\ [][NextRegistry]_vars

NextLed ==
    \/ \E party \in Parties, channels \in LockRequests :
          LockLedsEnter(party, channels) /\ UNCHANGED <<dosing_vars, registry_vars, temp_vars, timer_vars, bubbler_vars, process_vars, service_vars>>
    \/ \E party \in Parties :
          LockLedsExit(party) /\ UNCHANGED <<dosing_vars, registry_vars, temp_vars, timer_vars, bubbler_vars, process_vars, service_vars>>
    \/ (LedIntensityCall /\ UNCHANGED <<dosing_vars, registry_vars, temp_vars, timer_vars, bubbler_vars, process_vars, service_vars>>)

\* parties locking LED channels and callers of led_intensity
SpecLed == InitIdle /\ [][NextLed]_vars

NextTemp ==
    \/ (read_external_temperature /\ UNCHANGED <<dosing_vars, registry_vars, led_vars, timer_vars, bubbler_vars, process_vars, service_vars>>)
    \/ (infer_temperature /\ UNCHANGED <<dosing_vars, registry_vars, led_vars, timer_vars, bubbler_vars, process_vars, service_vars>>)
    \/ (UpdateHeater /\ UNCHANGED <<dosing_vars, registry_vars, led_vars, timer_vars, bubbler_vars, process_vars, service_vars>>)
    \/ (on_sleeping /\ UNCHANGED <<dosing_vars, registry_vars, led_vars, timer_vars, bubbler_vars, process_vars, service_vars>>)
    \/ (on_sleeping_to_ready /\ UNCHANGED <<dosing_vars, registry_vars, led_vars, timer_vars, bubbler_vars, process_vars, service_vars>>)
    \/ (PwmLockByOther /\ UNCHANGED <<dosing_vars, registry_vars, led_vars, timer_vars, bubbler_vars, process_vars, service_vars>>)

\* the temperature automation job
SpecTemp == InitIdle /\ [][NextTemp]_vars

\* the dosing automation job, its controller and the operator
NextLifecycle ==
    \/ NextPaused
    \/ (Controller_on_sleeping /\ UNCHANGED <<registry_vars, led_vars, temp_vars, timer_vars, bubbler_vars, process_vars, service_vars>>)
    \/ (Controller_on_ready /\ UNCHANGED <<registry_vars, led_vars, temp_vars, timer_vars, bubbler_vars, process_vars, service_vars>>)
    \/ (Controller_on_disconnected /\ UNCHANGED <<registry_vars, led_vars, temp_vars, timer_vars, bubbler_vars, process_vars, service_vars>>)

SpecLifecycle == InitOfPaused /\ [][NextLifecycle]_vars

\* the timer with its own thread only
NotTheTimer == UNCHANGED <<dosing_vars, registry_vars, led_vars, temp_vars, bubbler_vars, process_vars, service_vars>>

NextTimer ==
    \/ (Tick /\ NotTheTimer)
    \/ (Start /\ NotTheTimer)
    \/ (TargetBegin /\ NotTheTimer)
    \/ (LoopWake /\ NotTheTimer)
    \/ (PauseCheck /\ NotTheTimer)
    \/ (ExecCheck("timer") /\ NotTheTimer)
    \/ (ExecSet("timer") /\ NotTheTimer)
    \/ (CallbackReturn("timer") /\ NotTheTimer)

InitOfTimer ==
    InitDosingIdle /\ InitRegistry /\ InitLed /\ InitTemp /\ InitTimer /\ InitBubbler /\ InitProcesses /\ InitServices

SpecTimer == InitOfTimer /\ [][NextTimer]_vars

\* the timer and a thread that calls pause(), unpause() and cancel()
NextTimerControl ==
    \/ NextTimer
    \/ (pause /\ NotTheTimer)
    \/ (unpause /\ NotTheTimer)
    \/ (cancel /\ NotTheTimer)
    \/ (CancelReturn /\ NotTheTimer)

SpecTimerControl == InitOfTimer /\ [][NextTimerControl]_vars

\* the timer and another thread that calls _execute_function
NextTimerShared ==
    \/ (Tick /\ NotTheTimer)
    \/ (Start /\ NotTheTimer)
    \/ (TargetBegin /\ NotTheTimer)
    \/ (LoopWake /\ NotTheTimer)
    \/ (PauseCheck /\ NotTheTimer)
    \/ (CallerInvoke /\ NotTheTimer)
    \/ \E th \in Threads : ExecCheck(th) /\ NotTheTimer
    \/ \E th \in Threads : ExecSet(th) /\ NotTheTimer
    \/ \E th \in Threads : CallbackReturn(th) /\ NotTheTimer

SpecTimerShared == InitOfTimer /\ [][NextTimerShared]_vars

\* the timer of a job and the job's disconnect handling
NextDisconnect ==
    \/ NextTimer
    \/ DosingAutomationJob_on_disconnected
    \/ TemperatureAutomationJob_on_disconnected
    \/ DisconnectJoined

InitOfDisconnect ==
    InitDosingIdle /\ InitRegistry /\ InitLed /\ InitTemp /\ InitTimerOwned /\ InitBubbler /\ InitProcesses /\ InitServices

SpecDisconnect == InitOfDisconnect /\ [][NextDisconnect]_vars

\* the jobs with an actuator: the temperature automation job and the air
\* bubbler, put to sleep and woken up by the operator
NextSleeping ==
    \/ NextTemp
    \/ (AirBubbler_on_sleeping /\ UNCHANGED <<dosing_vars, registry_vars, led_vars, temp_vars, timer_vars, process_vars, service_vars>>)
    \/ (AirBubbler_on_sleeping_to_ready /\ UNCHANGED <<dosing_vars, registry_vars, led_vars, temp_vars, timer_vars, process_vars, service_vars>>)
    \/ \E value \in BubblerRequests :
          AirBubbler_set_duty_cycle(value) /\ UNCHANGED <<dosing_vars, registry_vars, led_vars, temp_vars, timer_vars, process_vars, service_vars>>

SpecSleeping == InitIdle /\ [][NextSleeping]_vars

\* a timer of the temperature automation job while the job sleeps and wakes
NextTimerSleeping ==
    \/ NextTimer
    \/ TemperatureAutomationJob_on_sleeping
    \/ TemperatureAutomationJob_on_sleeping_to_ready

InitOfTimerSleeping ==
    InitDosingIdle /\ InitRegistry /\ InitLed /\ InitTemp /\ InitTimerOfTemperature
        /\ InitBubbler /\ InitProcesses /\ InitServices

SpecTimerSleeping == InitOfTimerSleeping /\ [][NextTimerSleeping]_vars

\* the construction of an automation job, and its run timer
NextCtor ==
    \/ (Tick /\ NotTheTimer)
    \/ (TargetBegin /\ NotTheTimer)
    \/ (LoopWake /\ NotTheTimer)
    \/ (PauseCheck /\ NotTheTimer)
    \/ (ExecCheck("timer") /\ NotTheTimer)
    \/ (ExecSet("timer") /\ NotTheTimer)
    \/ (CallbackReturn("timer") /\ NotTheTimer)
    \/ DosingAutomationJob_init
    \/ Morbidostat_init
    \/ ControllerInitDone
    \/ ControllerInitFailed

InitOfCtor ==
    InitDosingNew /\ InitRegistry /\ InitLed /\ InitTemp /\ InitTimer /\ InitBubbler
        /\ InitCtorOfJob /\ InitKiller /\ InitLifecycle /\ InitPumpRun /\ InitLastExit /\ InitHeaterCall /\ InitServices

SpecCtor == InitOfCtor /\ [][NextCtor]_vars

\* parties holding LED channels in scopes, and temperature inferences
NextScopes ==
    \/ \E party \in Parties, channels \in LockRequests :
          /\ LockLedsEnter(party, channels)
          /\ UNCHANGED <<dosing_vars, registry_vars, temp_vars, timer_vars, bubbler_vars, process_vars, service_vars>>
    \/ \E party \in Parties, path \in ExitPaths :
          /\ LockLedsLeave(party, path)
          /\ UNCHANGED <<dosing_vars, registry_vars, temp_vars, timer_vars, bubbler_vars, ctor, killer, lifecycle, pump_run, last_heater_call, service_vars>>
    \/ (InferTemperatureReturns /\ UNCHANGED <<dosing_vars, registry_vars, led_vars, timer_vars, bubbler_vars, ctor, killer, lifecycle, pump_run, last_heater_call, service_vars>>)
    \/ (InferTemperatureRaises /\ UNCHANGED <<dosing_vars, registry_vars, led_vars, timer_vars, bubbler_vars, ctor, killer, lifecycle, pump_run, last_heater_call, service_vars>>)
    \/ (UpdateHeater /\ UNCHANGED <<dosing_vars, registry_vars, led_vars, timer_vars, bubbler_vars, process_vars, service_vars>>)

SpecScopes == InitIdle /\ [][NextScopes]_vars

\* callers of update_heater while another party locks and unlocks the PWM
NextHeaterLock ==
    \/ (UpdateHeaterCall /\ UNCHANGED <<dosing_vars, registry_vars, led_vars, timer_vars, bubbler_vars, ctor, killer, lifecycle, pump_run, last_exit, service_vars>>)
    \/ (UpdateHeaterWithDeltaCall /\ UNCHANGED <<dosing_vars, registry_vars, led_vars, timer_vars, bubbler_vars, ctor, killer, lifecycle, pump_run, last_exit, service_vars>>)
    \/ (PwmLockByOther /\ UNCHANGED <<dosing_vars, registry_vars, led_vars, timer_vars, bubbler_vars, process_vars, service_vars>>)

SpecHeaterLock == InitIdle /\ [][NextHeaterLock]_vars

\* callers of kill_jobs
NextKill ==
    \/ \E all_jobs \in BOOLEAN, query \in KillQueries :
          /\ kill_jobs(all_jobs, query)
          /\ UNCHANGED <<dosing_vars, registry_vars, led_vars, temp_vars, timer_vars, bubbler_vars, ctor, lifecycle, pump_run, last_exit, last_heater_call, service_vars>>
    \/ (KillJobsDone /\ UNCHANGED <<dosing_vars, registry_vars, led_vars, temp_vars, timer_vars, bubbler_vars, ctor, lifecycle, pump_run, last_exit, last_heater_call, service_vars>>)

InitOfKill ==
    InitDosingIdle /\ InitRegistry /\ InitLed /\ InitTemp /\ InitTimerIdle /\ InitBubbler
        /\ InitCtor /\ InitKillerOfKill /\ InitLifecycle /\ InitPumpRun /\ InitLastExit
        /\ InitHeaterCall /\ InitServices

SpecKill == InitOfKill /\ [][NextKill]_vars

\* a block under managed_lifecycle, kill_jobs, signals and the clock
OnlyThePump == UNCHANGED <<dosing_vars, registry_vars, led_vars, temp_vars, timer_vars, bubbler_vars, ctor, killer, last_exit, last_heater_call, service_vars>>

NextPump ==
    \/ (LifecycleEnter /\ OnlyThePump)
    \/ (BodyEnd /\ OnlyThePump)
    \/ (PumpBegin /\ OnlyThePump)
    \/ (ThreadStop /\ OnlyThePump)
    \/ (WaitReturns /\ OnlyThePump)
    \/ (LifecycleExit /\ OnlyThePump)
    \/ (PumpReturn /\ OnlyThePump)
    \/ (PumpTick /\ OnlyThePump)
    \/ (KillPublish /\ OnlyThePump)
    \/ (Deliver /\ OnlyThePump)
    \/ (Interrupt /\ OnlyThePump)

InitOfPump ==
    InitDosingIdle /\ InitRegistry /\ InitLed /\ InitTemp /\ InitTimerIdle /\ InitBubbler
        /\ InitCtor /\ InitKiller /\ InitLifecycleOfPump /\ InitPumpRunOfPump
        /\ InitLastExit /\ InitHeaterCall /\ InitServices

SpecPump == InitOfPump /\ [][NextPump]_vars

\* the main thread of the action is scheduled and the broker delivers
FairPump ==
    /\ WF_vars(Deliver /\ OnlyThePump)
    /\ WF_vars(LifecycleEnter /\ OnlyThePump)
    /\ WF_vars(BodyEnd /\ OnlyThePump)
    /\ WF_vars(PumpBegin /\ OnlyThePump)
    /\ WF_vars(WaitReturns /\ OnlyThePump)
    /\ WF_vars(LifecycleExit /\ OnlyThePump)

SpecPumpFair == SpecPump /\ FairPump

\* an automation whose attributes are assigned while time passes
NextSettings ==
    \/ \E name \in AttributeNames, value \in AttributeValues :
          /\ __setattr__(name, value)
          /\ UNCHANGED <<dosing_vars, registry_vars, led_vars, temp_vars, timer_vars, bubbler_vars, process_vars, beside_settings_channel>>
    \/ (SettingsTick /\ UNCHANGED <<dosing_vars, registry_vars, led_vars, temp_vars, timer_vars, bubbler_vars, process_vars, beside_settings_channel>>)
    \/ (AutomationOnDisconnected /\ UNCHANGED <<dosing_vars, registry_vars, led_vars, temp_vars, timer_vars, bubbler_vars, process_vars, beside_settings_channel>>)

InitOfSettings ==
    InitDosingIdle /\ InitRegistry /\ InitLed /\ InitTemp /\ InitTimerIdle /\ InitBubbler
        /\ InitProcesses /\ InitSettingsWith(Automations, {READY}) /\ InitBeside_settings_channel

SpecSettings == InitOfSettings /\ [][NextSettings]_vars

\* a job with settable and read-only settings, written locally and set remotely
NextRemoteSet ==
    \/ \E key \in SettingKeys, value \in SetPayloads :
          /\ LocalWrite(key, value)
          /\ UNCHANGED <<dosing_vars, registry_vars, led_vars, temp_vars, timer_vars, bubbler_vars, process_vars, beside_remote_set>>
    \/ \E key \in SettingKeys, payload \in SetPayloads :
          /\ SetAttrFromMessage(key, payload)
          /\ UNCHANGED <<dosing_vars, registry_vars, led_vars, temp_vars, timer_vars, bubbler_vars, process_vars, beside_remote_set>>

InitOfRemoteSet ==
    InitDosingIdle /\ InitRegistry /\ InitLed /\ InitTemp /\ InitTimerIdle /\ InitBubbler
        /\ InitProcesses /\ InitRemoteSetWith({0}) /\ InitBeside_remote_set

SpecRemoteSet == InitOfRemoteSet /\ [][NextRemoteSet]_vars

\* jobs of one process append their handlers, and the signal is delivered
NextSignals ==
    \/ \E new_callback \in Callbacks :
          /\ append_signal_handler(new_callback)
          /\ UNCHANGED <<dosing_vars, registry_vars, led_vars, temp_vars, timer_vars, bubbler_vars, process_vars, beside_signals>>
    \/ (DeliverSignal /\ UNCHANGED <<dosing_vars, registry_vars, led_vars, temp_vars, timer_vars, bubbler_vars, process_vars, beside_signals>>)

InitOfSignals ==
    InitDosingIdle /\ InitRegistry /\ InitLed /\ InitTemp /\ InitTimerIdle /\ InitBubbler
        /\ InitProcesses /\ InitSignalsWith(InstalledHandlers, {0}) /\ InitBeside_signals

SpecSignals == InitOfSignals /\ [][NextSignals]_vars

\* the dosing automation job with DosingEvents delivered late
InitOfLagging == InitLagging /\ InitRegistry /\ InitLed /\ InitTemp /\ InitTimerIdle /\ InitBubbler /\ InitProcesses /\ InitServices

SpecLagging == InitOfLagging /\ [][Next]_vars

\* a controller whose automation is switched, also before its first
\* automation job exists
OnlyTheSwitcher == UNCHANGED <<dosing_vars, registry_vars, led_vars, temp_vars, timer_vars, bubbler_vars, process_vars, beside_switcher>>

NextSwitch ==
    \/ (ControllerConstructsFirstJob /\ OnlyTheSwitcher)
    \/ \E automation_name \in AutomationNames, outcome \in ConstructorOutcomes :
          set_automation(automation_name, outcome) /\ OnlyTheSwitcher
    \/ \E automation_name \in AutomationNames :
          SetAutomationTooEarly(automation_name) /\ OnlyTheSwitcher
    \/ \E inner_outcome \in ConstructorOutcomes, outcome \in ConstructorOutcomes :
          SetAutomationRetried(inner_outcome, outcome) /\ OnlyTheSwitcher

InitOfSwitch ==
    InitDosingIdle /\ InitRegistry /\ InitLed /\ InitTemp /\ InitTimerIdle /\ InitBubbler
        /\ InitProcesses /\ InitSwitcherWith({"led_control", "dosing_control"}, {NoJob, 1}, {0})
        /\ InitBeside_switcher

SpecSwitch == InitOfSwitch /\ [][NextSwitch]_vars

\* a dosing automation job whose duration is set again and again
NextSchedules ==
    \/ \E duration \in DurationRequests :
          /\ set_duration(duration)
          /\ UNCHANGED <<dosing_vars, registry_vars, led_vars, temp_vars, timer_vars, bubbler_vars, process_vars, beside_schedules>>
    \/ \E timer \in 1..MaxDurationCalls :
          /\ ScheduleFires(timer)
          /\ UNCHANGED <<dosing_vars, registry_vars, led_vars, temp_vars, timer_vars, bubbler_vars, process_vars, beside_schedules>>

InitOfSchedules ==
    InitDosingIdle /\ InitRegistry /\ InitLed /\ InitTemp /\ InitTimerIdle /\ InitBubbler
        /\ InitProcesses /\ InitSchedulesWith(0) /\ InitBeside_schedules

SpecSchedules == InitOfSchedules /\ [][NextSchedules]_vars

\* processes that run blocks under managed_lifecycle at the same time
OnlyTheBlocks == UNCHANGED <<dosing_vars, led_vars, temp_vars, timer_vars, bubbler_vars, process_vars, beside_blocks>>

NextBlocks ==
    \/ \E c \in Conns, identity \in Identities : LifecycleEnterSelect(c, identity) /\ OnlyTheBlocks
    \/ \E c \in Conns : LifecycleEnterWrite(c) /\ OnlyTheBlocks
    \/ \E c \in Conns : LifecycleExitBlock(c) /\ OnlyTheBlocks

InitOfBlocks ==
    InitDosingIdle /\ InitRegistry /\ InitLed /\ InitTemp /\ InitTimerIdle /\ InitBubbler
        /\ InitProcesses /\ InitBlocksWith(0) /\ InitBeside_blocks

SpecBlocks == InitOfBlocks /\ [][NextBlocks]_vars

\* pump actions called one after another
NextPumpCalls ==
    \E ml \in RequestedMls, duration \in RequestedDurations, continuously \in BOOLEAN,
       calibration \in PumpCalibrations :
          /\ _pump_action(ml, duration, continuously, calibration)
          /\ UNCHANGED <<dosing_vars, registry_vars, led_vars, temp_vars, timer_vars, bubbler_vars, process_vars, beside_pump_calls>>

InitOfPumpCalls ==
    InitDosingIdle /\ InitRegistry /\ InitLed /\ InitTemp /\ InitTimerIdle /\ InitBubbler
        /\ InitProcesses /\ InitPumpCalls /\ InitBeside_pump_calls

SpecPumpCalls == InitOfPumpCalls /\ [][NextPumpCalls]_vars

(***************************************************************************)
(* Properties of the dosing automation job                                 *)
(***************************************************************************)
Requested(pump) ==
    LET i == CHOOSE j \in 1..Len(call.pumps) : call.pumps[j].pump = pump
    IN  call.pumps[i].ml

\* the call returned, the job was READY at every check, no threshold was
\* crossed and every pump moved what it was asked
CleanReturn == call.status = "returned" /\ ~call.left_ready /\ ~call.faults

\* C1: in a leaf, when vial_volume plus the volume asked of a non-waste pump
\* is at or above MAX_VIAL_VOLUME_TO_STOP, the job is SLEEPING once that
\* iteration is over, the pump was not invoked and nothing was raised.
C1_OverVolumeForcesSleeping ==
    (last_iter.ran /\ last_iter.vial_volume + last_iter.ml >= MAX_VIAL_VOLUME_TO_STOP)
        => /\ last_iter.state_after = SLEEPING
           /\ ~last_iter.invoked
           /\ call.status \in {"running", "returned"}

\* vial volume 17.5 mL, threshold 18.0 mL, media_ml 1.0: no dose is delivered
C1_Witness ==
    /\ last_iter.ran
    /\ last_iter.pump = "media_ml"
    /\ last_iter.ml = UnitsPerMl
    /\ last_iter.vial_volume = 560
    /\ state = SLEEPING
    /\ ~last_iter.invoked
    /\ call.invocations = 0

C7_LeafWithinMaxSubdose ==
    /\ \A i \in 1..Len(leaves) : SumMl(leaves[i].pumps) <= MAX_SUBDOSE
    /\ (stack # <<>> /\ Top.pc \in {"leaf", "waste", "extra_waste"})
           => SumMl(Top.pumps) <= MAX_SUBDOSE

C7_Witness ==
    /\ stack # <<>>
    /\ Top.pc = "waste"
    /\ Top.depth >= 1
    /\ call.invocations > 0
    /\ SumMl(Top.pumps) = MAX_SUBDOSE

\* the scenario of C8: execute_io_action(waste_ml=2.0, media_ml=1.0,
\* alt_media_ml=0.5) with MAX_SUBDOSE = 1.0
C8_Scenario ==
    /\ MAX_SUBDOSE = UnitsPerMl
    /\ call.waste_ml = 2 * UnitsPerMl
    /\ call.pumps = AllPumpsMl(UnitsPerMl, UnitsPerMl \div 2, <<>>)
    /\ CleanReturn

C9_WastePrecondition ==
    (call.status # "idle" /\ KwargsOk(call.pumps)) =>
        /\ call.waste_ml < SumMl(call.pumps)
              => /\ call.status = "raised_waste"
                 /\ call.invocations = 0
                 /\ leaves = <<>>
                 /\ call.state_after = call.state_before
        /\ call.waste_ml >= SumMl(call.pumps) => call.status # "raised_waste"

C9_Witness ==
    /\ call.status = "raised_waste"
    /\ call.waste_ml = SumMl(call.pumps) - GridStep
    /\ call.invocations = 0
    /\ state = call.state_before

\* C10 (as claimed): after every processed add_media, add_alt_media or
\* remove_waste event with a non-negative volume, vial_volume is >= 0 and
\* alt_media_fraction is within [0, 1] and well defined.
C10_VialStateWellDefined ==
    (last_update.ran
       /\ last_update.event.event \in {"add_media", "add_alt_media", "remove_waste"}
       /\ last_update.event.volume_change >= 0)
        => /\ vial_volume >= 0
           /\ alt_media_fraction >= 0
           /\ alt_media_fraction <= FracUnit
           /\ last_update.error = "none"


(***************************************************************************)
(* Properties of the job registry                                          *)
(***************************************************************************)
\* C2 (as claimed): under every interleaving of register_and_set_running
\* calls, an identity has at most one row with is_running = 1, and no
\* identity has two rows.
C2_AtMostOneRunningRow ==
    \A identity \in Identities :
        /\ Cardinality({i \in 1..Len(rows) : IdentityOf(rows[i]) = identity
                                               /\ rows[i].is_running = 1}) <= 1
        /\ Cardinality({i \in 1..Len(rows) : IdentityOf(rows[i]) = identity}) <= 1

(***************************************************************************)
(* Properties of the LED locks                                             *)
(***************************************************************************)
\* C3 (as claimed): a channel has at most one holder, and stays locked
\* while a party holds it.
C3_AtMostOneHolder ==
    \A c \in LED_CHANNELS :
        /\ Cardinality({p \in Parties : c \in holding[p]}) <= 1
        /\ (\E p \in Parties : c \in holding[p]) => is_locked(c)

\* C4 (as claimed): a led_intensity call that includes a locked channel
\* returns False and leaves that channel's stored intensity unchanged, the
\* unlocked channels of the call being updated.
C4_LockedChannelNotUpdated ==
    (last_led_call.ran /\ last_led_call.channels \cap last_led_call.locked # {})
        => /\ last_led_call.result = FALSE
           /\ \A c \in last_led_call.channels \cap last_led_call.locked :
                 last_led_call.new_state[c] = last_led_call.old_state[c]

(***************************************************************************)
(* Properties of the heater safety checks                                  *)
(***************************************************************************)
\* C5 (as claimed): when a reading exceeds MAX_TEMP_TO_DISABLE_HEATING the
\* heater duty cycle is 0 once the operation that took it has completed,
\* for read_external_temperature and for infer_temperature, and nothing is
\* raised.
C5_HeaterOffAfterOverTemperature ==
    (last_temp_op.ran /\ last_temp_op.temp > MAX_TEMP_TO_DISABLE_HEATING)
        => /\ last_temp_op.duty_after = 0
           /\ ~last_temp_op.raised

(***************************************************************************)
(* Properties of the accounting of automation doses                        *)
(***************************************************************************)
\* C11 (as claimed): once a call of execute_io_action has returned and all
\* its DosingEvents are processed, the media and alt-media throughput have
\* grown by the volumes the pumps reported as moved.
C11_AccountingUsesMovedVolume ==
    (call.status = "returned" /\ dosing_events = <<>>)
        => /\ media_throughput = SummableGet(call.result, "media_ml")
           /\ alt_media_throughput = SummableGet(call.result, "alt_media_ml")

(***************************************************************************)
(* Properties of the RepeatedTimer and of the job lifecycle                *)
(***************************************************************************)
\* C12 (as claimed): at most one invocation of the callback of a
\* RepeatedTimer is in progress at any time, whatever the interleaving of the
\* timer thread with calls of _execute_function from another thread.
C12_AtMostOneInvocation ==
    Cardinality({th \in Threads : CallbackInProgress(th)}) <= 1

\* C13 (as claimed): a tick that arrives while the callback is executing is
\* skipped and nothing more: the thread of the timer ends only when the timer
\* has been cancelled.
C13_SchedulerStaysAlive ==
    thread_at["timer"].pc = "dead" => event_is_set

\* C14 (as claimed): once cancel() has returned, the callback is not
\* executing and no invocation of it begins.
C14_NothingAfterCancel ==
    cancel_pc = "returned"
        => /\ ~CallbackInProgress("timer")
           /\ \A i \in 1..Len(fires) : ~fires[i].cancelled

\* C15 (as claimed): no invocation of the callback begins while the timer is
\* paused, the initial run_immediately invocation included.
C15_NoInvocationWhilePaused ==
    \A i \in 1..Len(fires) : ~fires[i].paused

\* the first invocation is number 0 when run_immediately is set, number 1
\* when it is not
PeriodOf(i) == IF t_cfg.run_immediately THEN i - 1 ELSE i

\* C16: as long as every earlier run of the callback took less than the
\* interval, the k-th periodic invocation begins at start_time + k * interval,
\* whatever the durations of the earlier runs were.
C16_NoDrift ==
    \A i \in 1..Len(fires) :
        (\A j \in 1..(i - 1) : fires[j].dur < t_cfg.interval)
            => fires[i].at = start_time + PeriodOf(i) * t_cfg.interval

\* three invocations on the grid after runs of different durations
C16_Witness ==
    /\ Len(fires) >= 3
    /\ fires[1].dur = 1
    /\ fires[2].dur = 0
    /\ fires[3].kind = "periodic"
    /\ fires[3].at = fires[2].at + t_cfg.interval

\* the first instant of the grid start_time + k * interval after time t
NextGridInstant(t) ==
    start_time + (((t - start_time) \div t_cfg.interval) + 1) * t_cfg.interval

\* C17: after an invocation in which the callback, or execute() inside run(),
\* raised an exception, the thread of the timer is still running, the state
\* of the job is what it was, the flag is_currently_executing is reset once
\* the callback is over, and the callback is invoked again at the next
\* instant of the grid.
C17_ExceptionDoesNotStopTimer ==
    \A i \in 1..Len(fires) :
        fires[i].outcome \in {"raised", "execute_raised"}
            => /\ thread_at["timer"].pc # "dead"
               /\ state = fires[i].job_state
               /\ (i = Len(fires) /\ ~CallbackInProgress("timer")) => ~is_currently_executing
               /\ now > NextGridInstant(fires[i].at + fires[i].dur)
                     => /\ i < Len(fires)
                        /\ fires[i + 1].at = NextGridInstant(fires[i].at + fires[i].dur)

\* the callback raised, and was invoked again afterwards
C17_Witness ==
    /\ Len(fires) >= 3
    /\ fires[1].outcome = "raised"
    /\ fires[2].outcome = "execute_raised"
    /\ fires[3].at = NextGridInstant(fires[2].at + fires[2].dur)

C19_NoCallbackAfterDisconnect ==
    disconnect_pc = "done"
        => /\ ~CallbackInProgress("timer")
           /\ \A i \in 1..Len(fires) : ~fires[i].disconnected

\* C20 (as claimed): while a job is SLEEPING its actuator is off: the heater
\* duty cycle of the temperature automation job is 0 and the PWM duty cycle of
\* the air bubbler is 0, whatever requests arrive.
C20_ActuatorsOffWhileSleeping ==
    /\ temp_state = SLEEPING => heater_duty_cycle = 0
    /\ bubbler.state = SLEEPING => bubbler.pwm_dc = 0

\* C21 (as claimed): while the job is SLEEPING every timer it owns is paused
\* and none is cancelled.
C21_SleepingPausesEveryTimer ==
    (t_cfg.owner = "temperature_automation" /\ temp_state = SLEEPING)
        => is_paused /\ ~event_is_set

\* C22 (as claimed): when the exception of a failed construction reaches the
\* caller, the automation job is DISCONNECTED and the run timer its base
\* constructor started is cancelled and its thread has ended.
C22_FailedInitReleasesTimer ==
    ctor.pc = "propagated"
        => /\ state = DISCONNECTED
           /\ event_is_set
           /\ thread_at["timer"].pc = "dead"

C24_LockedHeaterRefusesUpdate ==
    last_heater_call.ran =>
        IF last_heater_call.locked
        THEN /\ ~last_heater_call.returned
             /\ last_heater_call.after = last_heater_call.before
             /\ heater_duty_cycle = last_heater_call.before
        ELSE /\ last_heater_call.returned
             /\ heater_duty_cycle = clamp(0, last_heater_call.new_duty_cycle, 10000)

\* the call refused under the lock is repeated after the release and applied
C24_Witness ==
    /\ last_heater_call.ran
    /\ ~last_heater_call.locked
    /\ last_heater_call.returned
    /\ last_heater_call.new_duty_cycle = 5000
    /\ last_heater_call.new_duty_cycle \in last_heater_call.refused
    /\ last_heater_call.before = 0
    /\ heater_duty_cycle = 5000

\* C25 (as claimed): when kill_jobs returns, every running row that matches
\* the filter has had one termination action: a published disconnect
\* command if it is a pump job or led_intensity, a signal to its pid
\* otherwise; the value returned is the number of these actions.
C25_OneActionForEveryJob ==
    (killer.pc = "returned" /\ ~killer.raised) =>
        LET matching == {i \in 1..Len(killer.table) :
                            MatchesQuery(killer.table[i], killer.all_jobs, killer.query)}
            by_bus(i) == killer.table[i].job_name \in PUMPING_JOBS \cup {"led_intensity"}
            bus == {i \in matching : by_bus(i)}
            signal == {i \in matching : ~by_bus(i)}
        IN  /\ Len(killer.job_names_to_kill) = Cardinality(bus)
            /\ \A i \in bus :
                  \E k \in 1..Len(killer.job_names_to_kill) :
                      killer.job_names_to_kill[k] = killer.table[i].job_name
            /\ Len(killer.list_of_pids) = Cardinality(signal)
            /\ \A i \in signal :
                  \E k \in 1..Len(killer.list_of_pids) :
                      killer.list_of_pids[k] = killer.table[i].pid
            /\ killer.count = Cardinality(matching)

LastPublished ==
    IF lifecycle.published = <<>> THEN NoValue
    ELSE lifecycle.published[Len(lifecycle.published)]

\* C26: once the "disconnected" that kill_jobs published to $state/set of a
\* running pump job has been delivered, eventually the exit event is set,
\* the block has ended, the last $state published is "disconnected" and
\* the row is not running.
C26_KillEndsPumpJob ==
    lifecycle.delivered ~>
        (/\ lifecycle.exit_event
         /\ lifecycle.pc = "exited"
         /\ LastPublished = "disconnected"
         /\ lifecycle.row.is_running = 0)

C26_Witness ==
    /\ lifecycle.delivered
    /\ lifecycle.exit_event
    /\ pump_run.mode = "continuously"
    /\ lifecycle.pc = "exited"
    /\ LastPublished = "disconnected"
    /\ lifecycle.row.is_running = 0

\* C27: once a managed_lifecycle block has ended, in whichever way, the
\* last $state it published is "disconnected" and its row is not running
\* and has ended_at set.
C27_BlockEndsDisconnected ==
    lifecycle.pc = "exited" =>
        /\ LastPublished = "disconnected"
        /\ lifecycle.row.is_running = 0
        /\ lifecycle.row.ended_at # NoValue

C27_Witness ==
    /\ lifecycle.pc = "exited"
    /\ lifecycle.end_kind = "exception"
    /\ lifecycle.published = <<"ready", "disconnected">>
    /\ lifecycle.row = [is_running |-> 0, ended_at |-> "NOW"]

\* C28 (as claimed): a timed dose during which the exit event was set ends
\* with the pump stopped before the requested duration has elapsed, and
\* the action returns the volume of the time pumped.
C28_EarlyExitReturnsPumpedVolume ==
    (pump_run.pc = "done" /\ pump_run.mode \in {"ml", "duration"}
        /\ pump_run.set_at # NotYet) =>
        /\ ~pump_run.pwm_on
        /\ pump_run.stopped_at < pump_run.pump_start_time + pump_run.duration
        /\ pump_run.result.kind = "returned"
        /\ pump_run.result.ml =
              duration_to_ml_or_default(pump_run.calibration,
                                        pump_run.stopped_at - pump_run.pump_start_time)

\* C29 (as claimed): without a calibration a dose by duration and a
\* continuous dose return a volume of the default conversion and raise no
\* calibration error, however they end; only a dose by volume is refused.
C29_NoCalibrationFallsBack ==
    (pump_run.pc = "done" /\ pump_run.calibration = NoValue
        /\ pump_run.mode # "self_test") =>
        IF pump_run.mode = "ml"
        THEN pump_run.result = RaisesError("CalibrationError")
        ELSE /\ pump_run.result.kind = "returned"
             /\ pump_run.result.ml \in
                   {calibration_duration_to_ml(DEFAULT_CALIBRATION, seconds) :
                       seconds \in 0..MaxClock}

\* C30 (as claimed): when a DosingEvent of any kind is processed, either
\* alt_media_fraction, media_throughput, alt_media_throughput and
\* vial_volume all take the value their calculator gives for the event, or
\* none of the four changes.
C30_VialStateTransactional ==
    [][(dosing_events # <<>> /\ dosing_events' = Tail(dosing_events)) =>
          LET dosing_event == Head(dosing_events)
              amf == AltMediaFractionCalculator_update(dosing_event, alt_media_fraction,
                                                       vial_volume)
              thr == ThroughputCalculator_update(dosing_event, media_throughput,
                                                 alt_media_throughput)
              vol == VialVolumeCalculator_update(dosing_event, vial_volume)
          IN  \/ /\ amf.error = "none" /\ thr.error = "none" /\ vol.error = "none"
                 /\ alt_media_fraction' = amf.value
                 /\ media_throughput' = thr.value[1]
                 /\ alt_media_throughput' = thr.value[2]
                 /\ vial_volume' = vol.value
              \/ UNCHANGED <<alt_media_fraction, media_throughput,
                             alt_media_throughput, vial_volume>>]_vars

\* C31 (as claimed): after a published setting other than "state" was
\* changed, the snapshot published for the closed epoch ends at the time of
\* the change, the open epoch starts at that time, and the snapshot carries
\* the setting values that were in force during the closed epoch, i.e. the
\* values before the change.
C31_SnapshotPairsWindowWithItsValues ==
    (/\ settings_channel.last_set.ran
     /\ settings_channel.last_set.name \in published_settings \ {"state"}
     /\ settings_channel.attributes # settings_channel.last_set.before) =>
        /\ settings_channel.published.ended_at = settings_channel.last_set.at
        /\ settings_channel.latest_settings_started_at = settings_channel.last_set.at
        /\ settings_channel.published.settings =
              SnapshotSettings(settings_channel.last_set.before)

C33_EveryDeliveryInvokesEveryCallback ==
    signals.last_delivery.ran =>
        signals.last_delivery.appended \subseteq signals.last_delivery.invoked

\* C34 (as claimed): a pump started by execute_io_action, for an addition or
\* for a waste removal, starts only while the job's state is READY, whatever
\* state changes arrive between the steps of the call.
C34_PumpsStartOnlyWhileReady ==
    [][(/\ Len(dosing_events') = Len(dosing_events) + 1
        /\ dosing_events'[Len(dosing_events')].source_of_event = AutomationSource)
          => state' = READY]_vars

\* the liquid in the vial: vial_volume with the DosingEvents still in flight
\* applied
RECURSIVE PhysicalVolume(_, _)
PhysicalVolume(events, volume) ==
    IF events = <<>> THEN volume
    ELSE PhysicalVolume(Tail(events), VialVolumeCalculator_update(Head(events), volume).value)

\* C35 (as claimed): execute_io_action starts a non-waste pump only if the
\* volume already pumped into the vial plus the new dose stays below
\* MAX_VIAL_VOLUME_TO_STOP, also when earlier DosingEvents have not yet been
\* applied to vial_volume.
C35_DosingStaysBelowStopVolume ==
    [][(/\ Len(dosing_events') = Len(dosing_events) + 1
        /\ dosing_events'[Len(dosing_events')].source_of_event = AutomationSource
        /\ dosing_events'[Len(dosing_events')].event # "remove_waste")
          => PhysicalVolume(dosing_events, vial_volume)
                + dosing_events'[Len(dosing_events')].volume_change < MAX_VIAL_VOLUME_TO_STOP]_vars

NotDisconnected == {i \in 1..Len(switcher.jobs) : switcher.jobs[i].state # DISCONNECTED}

\* C36 (as claimed): a controller has at most one automation job that is not
\* DISCONNECTED, and once a switch has returned self.automation_job and the
\* published automation_name designate that job, also when the switch was
\* requested before the first automation job existed and when the
\* construction of the new automation failed.
C36_OneLiveAutomationJob ==
    /\ Cardinality(NotDisconnected) <= 1
    /\ switcher.returned =>
          /\ switcher.automation_job \in NotDisconnected
          /\ switcher.jobs[switcher.automation_job].automation_name = switcher.automation_name

ActiveSchedules == {i \in 1..Len(schedules.timers) : schedules.timers[i].active}

\* C37 (as claimed): after any sequence of set_duration calls at most one
\* periodic scheduler started by the job is active, and an active scheduler
\* is the one self.run_thread refers to: every call stopped the scheduler it
\* replaced.
C37_AtMostOneSchedule ==
    /\ Cardinality(ActiveSchedules) <= 1
    /\ \A i \in ActiveSchedules :
          schedules.run_thread = [kind |-> "RepeatedTimer", timer |-> i]

\* C38 (as claimed): once cancel() has been requested, i.e. the stop event is
\* set, the thread of the timer starts no invocation of the callback: neither
\* the initial run_immediately invocation nor a periodic one.
C38_NoInvocationOnceEventSet ==
    [][(/\ Len(fires') = Len(fires) + 1
        /\ fires'[Len(fires')].thread = "timer")
          => ~event_is_set]_vars

\* C39 (as claimed): while a managed_lifecycle block is inside its body, the
\* registry reports its job as running, also when another block with the same
\* (unit, experiment, name) has overlapped with it and has exited.
C39_RunningUntilLastExit ==
    \A c \in Conns :
        blocks[c].at = "inside" => is_job_running(conn[c].identity.job_name)


\* the requests that the pump action rejects: negative ml, negative duration,
\* both ml and duration, dosing by volume without a calibration
Rejected(request) ==
    \/ request.ml # NotGiven /\ request.ml < 0
    \/ request.duration # NotGiven /\ request.duration < 0
    \/ request.ml # NotGiven /\ request.duration # NotGiven
    \/ request.ml # NotGiven /\ request.calibration = NoValue

\* C40 (as claimed): a pump action that is rejected (negative ml, negative
\* duration, both ml and duration, or a volume without a calibration) raises
\* without having published any DosingEvent and without having started the pump.
C40_RejectedPumpActionLeavesNoTrace ==
    [][(pump_calls'.calls_left < pump_calls.calls_left /\ Rejected(pump_calls'.request))
          => /\ pump_calls'.result.kind = "raised"
             /\ pump_calls'.dosing_events = pump_calls.dosing_events
             /\ pump_calls'.pwm_starts = pump_calls.pwm_starts]_vars

====
